---- MODULE Spec2Model ----
(***************************************************************************)
(* ITBI auction pipeline: parser.py (clean_isin_column, get_month_data,    *)
(* prepare_isin_data, create_time_series_data, parse_auction_data) and the *)
(* two output generators (file_generator_xls.py, file_generator.py).       *)
(*                                                                         *)
(* Representation.  A text is a sequence of pieces whose concatenation it  *)
(* is.  Data the program looks into character by character (identifiers,   *)
(* dates, column labels, month labels) has one character per piece; the    *)
(* constant texts of config.py, which are only ever copied and compared    *)
(* whole, are one piece each.  A                                           *)
(* cell of a DataFrame is a tagged record [t, v]:                          *)
(*    "str"    text, v the characters                                      *)
(*    "num"    a number, v an integer                                      *)
(*    "nan"    a missing value (NaN / None), v = 0                         *)
(*    "ts"     a Timestamp, v = <<year, month, day>>                       *)
(*    "nat"    NaT, v = 0                                                  *)
(*    "period" a monthly Period, v = <<year, month>>                       *)
(* A DataFrame is [columns, rows]; a row is [idx, cells] where idx is the  *)
(* pandas index label (the position in the table parse_auction_data built) *)
(* and cells has one cell per column.                                      *)
(***************************************************************************)
EXTENDS Integers, Sequences, FiniteSets, TLC

VARIABLES
    pc,                 \* position in parse_auction_data / generate_all_files
    generator,          \* "xls" (main_fixed.py) or "legacy" (main.py)
    target_month,       \* <<>> for None, else <<year, month>>
    process_all,        \* BOOLEAN
    xls,                \* the sheet as read_excel(header=1) returns it
    df,                 \* parse_auction_data's df
    df_clean,           \* parse_auction_data's df_clean
    month_data_result,  \* what get_month_data returned
    todo,               \* (month, identifier) pairs the loop has still to do
    parsed_data,        \* the dict being built: a sequence of [key, val]
    ret,                \* what parse_auction_data returned, and where
    gen_i,              \* generate_all_files: position of the item in hand
    files,              \* the output directory: path -> file
    file_paths,         \* the dict generate_all_files builds
    xls_file,           \* what download_latest_auction_file returned
    run,                \* 1 in the first run of main, 2 in the second
    prev_files,         \* the output directory of the first run
    sort_memo           \* what sort_values gave for each table it has sorted

vars == <<pc, generator, target_month, process_all, xls, df, df_clean,
          month_data_result, todo, parsed_data, ret, gen_i, files, file_paths,
          xls_file, run, prev_files, sort_memo>>

(***************************************************************************)
(* Characters and strings                                                  *)
(***************************************************************************)
DigitChars == <<"0", "1", "2", "3", "4", "5", "6", "7", "8", "9">>

UpperChars == <<"A", "B", "C", "D", "E", "F", "G", "H", "I", "J", "K", "L", "M",
                "N", "O", "P", "Q", "R", "S", "T", "U", "V", "W", "X", "Y", "Z">>

LowerChars == <<"a", "b", "c", "d", "e", "f", "g", "h", "i", "j", "k", "l", "m",
                "n", "o", "p", "q", "r", "s", "t", "u", "v", "w", "x", "y", "z">>

Range(s) == {s[i] : i \in DOMAIN s}

IndexOf(seq, c) == CHOOSE i \in DOMAIN seq : seq[i] = c

\* \d of the re module, on the ASCII digits
IsDigit(c) == c \in Range(DigitChars)

DigitVal(c) == IndexOf(DigitChars, c) - 1

\* str.lower(), one character
LowerChar(c) == IF c \in Range(UpperChars) THEN LowerChars[IndexOf(UpperChars, c)] ELSE c

\* str.lower()
Lower(s) == [i \in DOMAIN s |-> LowerChar(s[i])]

\* sub in s
Contains(s, sub) ==
    \E i \in 0 .. (Len(s) - Len(sub)) :
        \A j \in 1 .. Len(sub) : s[i + j] = sub[j]

\* the code point of the characters that output strings are made of
Ord(c) ==
    CASE c = "-" -> 45
      [] c = "." -> 46
      [] c = "/" -> 47
      [] IsDigit(c) -> 48 + DigitVal(c)
      [] c \in Range(UpperChars) -> 64 + IndexOf(UpperChars, c)
      [] c = "_" -> 95
      [] c \in Range(LowerChars) -> 96 + IndexOf(LowerChars, c)
      [] OTHER -> 32

\* a < b for str
RECURSIVE StrLess(_, _)
StrLess(a, b) ==
    IF b = <<>> THEN FALSE
    ELSE IF a = <<>> THEN TRUE
    ELSE IF Ord(Head(a)) # Ord(Head(b)) THEN Ord(Head(a)) < Ord(Head(b))
    ELSE StrLess(Tail(a), Tail(b))

\* the decimal digits of n, zero-padded to at least width characters
RECURSIVE ZeroPad(_, _)
ZeroPad(n, width) ==
    IF n < 10 /\ width <= 1 THEN <<DigitChars[n + 1]>>
    ELSE ZeroPad(n \div 10, width - 1) \o <<DigitChars[(n % 10) + 1]>>

\* int() of a string of digits
RECURSIVE ParseInt(_)
ParseInt(s) ==
    IF s = <<>> THEN 0
    ELSE 10 * ParseInt(SubSeq(s, 1, Len(s) - 1)) + DigitVal(s[Len(s)])

AllDigits(s) == s # <<>> /\ \A i \in DOMAIN s : IsDigit(s[i])

(***************************************************************************)
(* Cells                                                                   *)
(***************************************************************************)
Str(s) == [t |-> "str", v |-> s]
Num(n) == [t |-> "num", v |-> n]
NaN == [t |-> "nan", v |-> 0]
Ts(y, m, d) == [t |-> "ts", v |-> <<y, m, d>>]
NaT == [t |-> "nat", v |-> 0]
Period(y, m) == [t |-> "period", v |-> <<y, m>>]

\* Series.notna(), one cell
NotNa(c) == c.t \notin {"nan", "nat"}

\* Series.astype(str), one cell: str(value)
AsTypeStr(c) ==
    CASE c.t = "str" -> c
      [] c.t = "nan" -> Str(<<"n", "a", "n">>)
      [] c.t = "nat" -> Str(<<"N", "a", "T">>)
      [] c.t = "num" -> Str(IF c.v < 0 THEN <<"-">> \o ZeroPad(-c.v, 1) ELSE ZeroPad(c.v, 1))
      [] c.t = "ts" -> Str(ZeroPad(c.v[1], 4) \o <<"-">> \o ZeroPad(c.v[2], 2)
                           \o <<"-">> \o ZeroPad(c.v[3], 2))
      [] OTHER -> Str(ZeroPad(c.v[1], 4) \o <<"-">> \o ZeroPad(c.v[2], 2))

(***************************************************************************)
(* DataFrames                                                              *)
(***************************************************************************)
\* position of the column labelled name (0 when there is none)
ColPos(columns, name) ==
    IF name \in Range(columns) THEN CHOOSE i \in DOMAIN columns : columns[i] = name ELSE 0

\* df.rename(columns={columns[i]: name})
Rename(t, i, name) ==
    [t EXCEPT !.columns = [j \in DOMAIN t.columns |-> IF j = i THEN name ELSE t.columns[j]]]

\* df[col] = cells: the column at position i takes the values of cells, row
\* by row
MapColumn(t, i, cells) ==
    [t EXCEPT !.rows = [k \in DOMAIN t.rows |-> [t.rows[k] EXCEPT !.cells[i] = cells[k]]]]

\* df[name] = cells, a new last column when name is not a column yet
SetColumn(t, name, cells) ==
    IF ColPos(t.columns, name) # 0
    THEN MapColumn(t, ColPos(t.columns, name), cells)
    ELSE [columns |-> Append(t.columns, name),
          rows |-> [k \in DOMAIN t.rows |->
            [t.rows[k] EXCEPT !.cells = Append(t.rows[k].cells, cells[k])]]]

\* the elements of seq at the positions in S, in order
RECURSIVE Pick(_, _, _)
Pick(seq, S, n) ==
    IF n = 0 THEN <<>>
    ELSE IF n \in S THEN Append(Pick(seq, S, n - 1), seq[n])
    ELSE Pick(seq, S, n - 1)

\* df[mask]: the rows at the positions where the mask holds, in order
Filter(t, mask) == [t EXCEPT !.rows = Pick(t.rows, mask, Len(t.rows))]

\* the index labels of a table's rows
Idx(t) == {t.rows[k].idx : k \in DOMAIN t.rows}

EmptyFrame == [columns |-> <<>>, rows |-> <<>>]

(***************************************************************************)
(* parser.py: clean_isin_column                                            *)
(***************************************************************************)
ISIN == <<"I", "S", "I", "N">>
DATA_ASTA == <<"d", "a", "t", "a", " ", "a", "s", "t", "a">>

\* the number of digits the strict pattern asks for after IT
StrictDigits == 11

\* the last column, left to right, whose label contains one of subs
FuzzyColumn_Last(columns, subs) ==
    LET hits == {i \in DOMAIN columns : \E sub \in subs : Contains(Lower(columns[i]), sub)}
    IN IF hits = {} THEN 0 ELSE CHOOSE i \in hits : \A j \in hits : i >= j

\* stage 2 of the detection chain: the first column, left to right, whose
\* lower-cased label contains one of subs (0 when there is none)
FuzzyColumn(columns, subs) ==
    LET hits == {i \in DOMAIN columns : \E sub \in subs : Contains(Lower(columns[i]), sub)}
    IN IF hits = {} THEN 0 ELSE CHOOSE i \in hits : \A j \in hits : i <= j

\* a chain that ends with the last column, whatever the width of the table
IsinColumn_LastColumn(columns) ==
    IF ISIN \in Range(columns) THEN ColPos(columns, ISIN)
    ELSE IF FuzzyColumn(columns, {<<"i", "s", "i", "n">>}) # 0
         THEN FuzzyColumn(columns, {<<"i", "s", "i", "n">>})
    ELSE Len(columns)

\* the column clean_isin_column takes for the identifier (0: none found)
IsinColumn(columns) ==
    IF ISIN \in Range(columns) THEN ColPos(columns, ISIN)
    ELSE IF FuzzyColumn(columns, {<<"i", "s", "i", "n">>}) # 0
         THEN FuzzyColumn(columns, {<<"i", "s", "i", "n">>})
    ELSE IF Len(columns) > 2 THEN 3
    ELSE 0

\* Series.str.match(r'^IT\d{11}$'): re.match, where $ also matches before a
\* newline that ends the string
StrictMatch(s) ==
    /\ Len(s) \in {StrictDigits + 2, StrictDigits + 3}
    /\ s[1] = "I" /\ s[2] = "T"
    /\ \A i \in 3 .. (StrictDigits + 2) : IsDigit(s[i])
    /\ Len(s) = StrictDigits + 3 => s[Len(s)] = "\n"

\* Series.str.contains(r'IT\d+'): re.search
RelaxedMatch(s) ==
    \E i \in 1 .. (Len(s) - 2) : s[i] = "I" /\ s[i + 1] = "T" /\ IsDigit(s[i + 2])

\* df['ISIN'].notna() & (df['ISIN'] != '') & (df['ISIN'] != 'nan'), on str cells
NonEmptyMatch(s) == s # <<>> /\ s # <<"n", "a", "n">>

\* IsinMask with the relaxed pattern tried whatever the strict one found
IsinMask_AlwaysRelaxed(ids) ==
    LET strict == {k \in DOMAIN ids : StrictMatch(ids[k])}
        relaxed == {k \in DOMAIN ids : RelaxedMatch(ids[k])}
        non_empty == {k \in DOMAIN ids : NonEmptyMatch(ids[k])}
        mask1 == IF Cardinality(relaxed) > 0 THEN relaxed ELSE strict
    IN IF Cardinality(mask1) = 0 /\ Cardinality(non_empty) > 0
       THEN non_empty ELSE mask1

\* IsinMask without the relaxed tier
IsinMask_NoRelaxedTier(ids) ==
    LET strict == {k \in DOMAIN ids : StrictMatch(ids[k])}
        non_empty == {k \in DOMAIN ids : NonEmptyMatch(ids[k])}
    IN IF Cardinality(strict) = 0 /\ Cardinality(non_empty) > 0
       THEN non_empty ELSE strict

\* IsinMask whose last tier lets the text 'nan' through
IsinMask_NanKept(ids) ==
    LET strict == {k \in DOMAIN ids : StrictMatch(ids[k])}
        relaxed == {k \in DOMAIN ids : RelaxedMatch(ids[k])}
        non_empty == {k \in DOMAIN ids : ids[k] # <<>>}
        mask1 == IF Cardinality(strict) = 0 /\ Cardinality(relaxed) > 0
                 THEN relaxed ELSE strict
    IN IF Cardinality(mask1) = 0 /\ Cardinality(non_empty) > 0
       THEN non_empty ELSE mask1

\* IsinMask that lets the relaxed matches through beside the strict ones
IsinMask_RelaxedBesideStrict(ids) ==
    LET strict == {k \in DOMAIN ids : StrictMatch(ids[k])}
        relaxed == {k \in DOMAIN ids : RelaxedMatch(ids[k])}
        non_empty == {k \in DOMAIN ids : NonEmptyMatch(ids[k])}
    IN IF Cardinality(relaxed) = 0 /\ Cardinality(non_empty) > 0
       THEN non_empty ELSE relaxed

\* valid_isin_mask of clean_isin_column: the positions kept, given the
\* identifier strings of the rows
IsinMask(ids) ==
    LET strict == {k \in DOMAIN ids : StrictMatch(ids[k])}
        relaxed == {k \in DOMAIN ids : RelaxedMatch(ids[k])}
        non_empty == {k \in DOMAIN ids : NonEmptyMatch(ids[k])}
        mask1 == IF Cardinality(strict) = 0 /\ Cardinality(relaxed) > 0
                 THEN relaxed ELSE strict
    IN IF Cardinality(mask1) = 0 /\ Cardinality(non_empty) > 0
       THEN non_empty ELSE mask1

\* clean_isin_column from line 60 on: t is the caller's table, typed the
\* table whose identifier column, at position pos, holds str
CleanTyped(t, typed, pos) ==
    [found |-> TRUE,
     arg |-> IF ISIN \in Range(t.columns) THEN typed ELSE t,
     out |-> Filter(typed, IsinMask([k \in DOMAIN typed.rows |-> typed.rows[k].cells[pos].v]))]

\* clean_isin_column once the identifier column is known to be at pos: the
\* column is renamed, then df['ISIN'] = df['ISIN'].astype(str)
CleanAt(t, pos) ==
    IF pos = 0 THEN [found |-> FALSE, arg |-> t, out |-> t]
    ELSE CleanTyped(t,
                    MapColumn(Rename(t, pos, ISIN), pos,
                              [k \in DOMAIN t.rows |-> AsTypeStr(t.rows[k].cells[pos])]),
                    pos)

\* clean_isin_column(df): found tells whether an identifier column was found,
\* arg is the caller's table after the call, out the table returned
clean_isin_column(t) == CleanAt(t, IsinColumn(t.columns))

(***************************************************************************)
(* parser.py: get_month_data                                               *)
(***************************************************************************)
\* a calendar with a 29 February every fourth year
DaysInMonth_EveryFourth(y, m) ==
    IF m = 2 THEN (IF y % 4 = 0 THEN 29 ELSE 28)
    ELSE IF m \in {4, 6, 9, 11} THEN 30 ELSE 31

DaysInMonth(y, m) ==
    IF m = 2 THEN (IF (y % 4 = 0 /\ y % 100 # 0) \/ y % 400 = 0 THEN 29 ELSE 28)
    ELSE IF m \in {4, 6, 9, 11} THEN 30 ELSE 31

\* the positions of c in s, ascending
Positions(s, c) == {i \in DOMAIN s : s[i] = c}

\* the Timestamp of day d of month m of year y; NaT when there is no such
\* day, or the year is out of the range of Timestamp
MakeTimestamp(y, m, d) ==
    IF m \notin 1 .. 12 THEN NaT
    ELSE IF d \notin 1 .. DaysInMonth(y, m) THEN NaT
    ELSE IF y \notin 1678 .. 2261 THEN NaT
    ELSE Ts(y, m, d)

\* the three fields of a date text: digits only, day and month of at most
\* two digits, the year of four
ParseFields(dd, mm, yy) ==
    IF ~(AllDigits(dd) /\ AllDigits(mm) /\ AllDigits(yy)) THEN NaT
    ELSE IF Len(dd) > 2 \/ Len(mm) > 2 \/ Len(yy) # 4 THEN NaT
    ELSE MakeTimestamp(ParseInt(yy), ParseInt(mm), ParseInt(dd))

\* s cut at its two slashes, at positions p1 and p2
SplitDate(s, p1, p2) ==
    ParseFields(SubSeq(s, 1, p1 - 1), SubSeq(s, p1 + 1, p2 - 1), SubSeq(s, p2 + 1, Len(s)))

\* the text of a day-first date, "dd/mm/yyyy", as a Timestamp; NaT for
\* anything else (errors='coerce')
ParseDayFirst(s) ==
    IF Cardinality(Positions(s, "/")) # 2 THEN NaT
    ELSE SplitDate(s, CHOOSE i \in Positions(s, "/") : \A j \in Positions(s, "/") : i <= j,
                   CHOOSE i \in Positions(s, "/") : \A j \in Positions(s, "/") : j <= i)

\* pd.to_datetime(..., dayfirst=True, errors='coerce'), one cell
ToDatetime(c) ==
    CASE c.t = "ts" -> c
      [] c.t = "str" -> ParseDayFirst(c.v)
      [] c.t = "num" -> Ts(1970, 1, 1)
      [] OTHER -> NaT

\* the column get_month_data takes for the auction date (0: none found)
DateColumn(columns) ==
    IF DATA_ASTA \in Range(columns) THEN ColPos(columns, DATA_ASTA)
    ELSE IF FuzzyColumn(columns, {<<"d", "a", "t", "a">>, <<"d", "a", "t", "e">>}) # 0
         THEN FuzzyColumn(columns, {<<"d", "a", "t", "a">>, <<"d", "a", "t", "e">>})
    ELSE IF Len(columns) > 0 THEN 1
    ELSE 0

\* str(Period): 'YYYY-MM'
PeriodStr(p) == ZeroPad(p[1], 4) \o <<"-">> \o ZeroPad(p[2], 2)

\* pd.Period(f"{year}-{month:02d}", freq='M'): the text is formatted, then parsed
TargetPeriod(tm) == <<ParseInt(ZeroPad(tm[1], 1)), ParseInt(ZeroPad(tm[2], 2))>>

PeriodLess(a, b) == a[1] < b[1] \/ (a[1] = b[1] /\ a[2] < b[2])

\* sorted(S) for a set of periods
RECURSIVE SortPeriods(_)
SortPeriods(S) ==
    IF S = {} THEN <<>>
    ELSE LET lo == CHOOSE a \in S : \A b \in S : ~PeriodLess(b, a)
         IN <<lo>> \o SortPeriods(S \ {lo})

\* the earliest period of S
MaxMonth_Earliest(S) == CHOOSE a \in S : \A b \in S : ~PeriodLess(b, a)

\* df['month'].max()
MaxMonth(S) == CHOOSE a \in S : \A b \in S : ~PeriodLess(a, b)

MONTH == <<"m", "o", "n", "t", "h">>

\* the 'month' cell of a row of a table that has the column
MonthOf(t, row) == row.cells[ColPos(t.columns, MONTH)].v

\* the rows of month p and of the months before it
MonthRows_UpTo(t, p) ==
    Filter(t, {k \in DOMAIN t.rows : ~PeriodLess(p, MonthOf(t, t.rows[k]))})

\* df[df['month'] == p].copy()
MonthRows(t, p) == Filter(t, {k \in DOMAIN t.rows : MonthOf(t, t.rows[k]) = p})

\* df['data asta'] = pd.to_datetime(...), unless the column holds datetimes
\* (pd.api.types.is_datetime64_any_dtype)
DatesConverted(t, pos) ==
    IF \A k \in DOMAIN t.rows : t.rows[k].cells[pos].t \in {"ts", "nat"} THEN t
    ELSE MapColumn(t, pos, [k \in DOMAIN t.rows |-> ToDatetime(t.rows[k].cells[pos])])

\* df[valid_date_mask].copy()
ValidDates(t, pos) == Filter(t, {k \in DOMAIN t.rows : NotNa(t.rows[k].cells[pos])})

\* df['month'] = df['data asta'].dt.to_period('M')
WithMonth(t, pos) ==
    SetColumn(t, MONTH, [k \in DOMAIN t.rows |-> Period(t.rows[k].cells[pos].v[1], t.rows[k].cells[pos].v[2])])

\* df['month'].unique(), as a set
Months(t) == {MonthOf(t, t.rows[k]) : k \in DOMAIN t.rows}

\* mode all: the mapping from each month of all_months to its rows
AllMonths(t, all_months) ==
    [kind |-> "dict",
     items |-> [n \in DOMAIN all_months |->
                  [key |-> PeriodStr(all_months[n]), val |-> MonthRows(t, all_months[n])]]]

\* the rows of period p and str(p); when p is the requested month and has no
\* row, the rows are df.iloc[:0], as empty as what the comparison gives
OneMonth(t, p) == [kind |-> "tuple", data |-> MonthRows(t, p), label |-> PeriodStr(p)]

\* what get_month_data returns before it looks at any date
NoMonthData(t, all) ==
    IF all THEN [kind |-> "dict", items |-> <<>>]
    ELSE [kind |-> "tuple", data |-> t, label |-> <<>>]

\* a get_month_data whose mapping has the requested month only
SelectMonths_TargetFirst(t, tm, all) ==
    IF all THEN AllMonths(t, IF tm # <<>> THEN <<TargetPeriod(tm)>> ELSE SortPeriods(Months(t)))
    ELSE IF tm # <<>> THEN OneMonth(t, TargetPeriod(tm))
    ELSE OneMonth(t, MaxMonth(Months(t)))

\* get_month_data from line 154 on, for the rows that have a date
SelectMonths(t, tm, all) ==
    IF all THEN AllMonths(t, SortPeriods(Months(t)))
    ELSE IF tm # <<>> THEN OneMonth(t, TargetPeriod(tm))
    ELSE OneMonth(t, MaxMonth(Months(t)))

\* get_month_data from line 147 on: valid is the table of the rows with a date
FromValid(valid, pos, tm, all) ==
    IF valid.rows = <<>> THEN NoMonthData(valid, all)
    ELSE SelectMonths(WithMonth(valid, pos), tm, all)

\* get_month_data from line 143 on: t is the caller's table, typed the table
\* whose date column, at position pos, holds datetimes
FromTyped(t, typed, pos, tm, all) ==
    [arg |-> IF DATA_ASTA \in Range(t.columns) THEN typed ELSE t,
     out |-> FromValid(ValidDates(typed, pos), pos, tm, all)]

\* get_month_data once the date column is known to be at pos
MonthDataAt(t, pos, tm, all) ==
    IF pos = 0 THEN [arg |-> t, out |-> NoMonthData(t, all)]
    ELSE FromTyped(t, DatesConverted(Rename(t, pos, DATA_ASTA), pos), pos, tm, all)

\* get_month_data(df, target_month, process_all): arg is the caller's table
\* after the call; out is the mapping (kind "dict", items in insertion
\* order) or the pair (kind "tuple", data and label)
get_month_data(t, tm, all) == MonthDataAt(t, DateColumn(t.columns), tm, all)



(***************************************************************************)
(* config.py                                                               *)
(***************************************************************************)
TIME_SERIES_ORDER == <<"OFR", "MIN", "MAX", "REQ", "ASGN">>

TIME_SERIES_MAPPING ==
    [ts_type \in Range(TIME_SERIES_ORDER) |->
        CASE ts_type = "ASGN" ->
               [suffix |-> <<"ASGN.ITBI.D">>,
                description |-> <<"amounts:assigned">>,
                source_column |-> <<"assegnato">>]
          [] ts_type = "MAX" ->
               [suffix |-> <<"MAX.ITBI.D">>,
                description |-> <<"amounts:maximum offered">>,
                source_column |-> <<"massimo offerto">>]
          [] ts_type = "MIN" ->
               [suffix |-> <<"MIN.ITBI.D">>,
                description |-> <<"amounts:minimum offered">>,
                source_column |-> <<"minimo offerto">>]
          [] ts_type = "OFR" ->
               [suffix |-> <<"OFR.ITBI.D">>,
                description |-> <<"amounts:offered">>,
                source_column |-> <<"offerto">>]
          [] OTHER ->
               [suffix |-> <<"REQ.ITBI.D">>,
                description |-> <<"amounts:required">>,
                source_column |-> <<"richiesto">>]]

METADATA_COLUMNS ==
    <<<<"CODE">>, <<"DESCRIPTION">>, <<"FREQUENCY">>, <<"MULTIPLIER">>,
      <<"AGGREGATION_TYPE">>, <<"UNIT_TYPE">>, <<"DATA_TYPE">>, <<"DATA_UNIT">>,
      <<"SEASONALLY_ADJUSTED">>, <<"ANNUALIZED">>, <<"PROVIDER_MEASURE_URL">>,
      <<"PROVIDER">>, <<"SOURCE">>, <<"SOURCE_DESCRIPTION">>, <<"COUNTRY">>, <<"DATASET">>>>

\* METADATA_DEFAULTS, as the (key, value) pairs of the dict in its order
METADATA_DEFAULTS ==
    <<[key |-> <<"FREQUENCY">>, val |-> Str(<<"D">>)],
      [key |-> <<"MULTIPLIER">>, val |-> [t |-> "float", v |-> 6]],
      [key |-> <<"AGGREGATION_TYPE">>, val |-> Str(<<"END_OF_PERIOD">>)],
      [key |-> <<"UNIT_TYPE">>, val |-> Str(<<"LEVEL">>)],
      [key |-> <<"DATA_TYPE">>, val |-> Str(<<"CURRENCY">>)],
      [key |-> <<"DATA_UNIT">>, val |-> Str(<<"EUR">>)],
      [key |-> <<"SEASONALLY_ADJUSTED">>, val |-> Str(<<"NSA">>)],
      [key |-> <<"ANNUALIZED">>, val |-> [t |-> "bool", v |-> FALSE]],
      [key |-> <<"PROVIDER_MEASURE_URL">>, val |-> Str(<<"https://www.bancaditalia.it/compiti/operazioni-mef/risultati-aste/index.html">>)],
      [key |-> <<"PROVIDER">>, val |-> Str(<<"AfricaAI">>)],
      [key |-> <<"SOURCE">>, val |-> Str(<<"BdIt">>)],
      [key |-> <<"SOURCE_DESCRIPTION">>, val |-> Str(<<"Banca d'Italia">>)],
      [key |-> <<"COUNTRY">>, val |-> Str(<<"ITA">>)],
      [key |-> <<"DATASET">>, val |-> Str(<<"ITBI">>)]>>

\* a data file name without the identifier
DATA_FILE_PATTERN_NoIsin(isin, timestamp) ==
    <<"ITBI_">> \o <<"_DATA_">> \o timestamp \o <<".xls">>

DATA_FILE_PATTERN(isin, timestamp) ==
    <<"ITBI_">> \o isin \o <<"_DATA_">> \o timestamp \o <<".xls">>

META_FILE_PATTERN(isin, timestamp) ==
    <<"ITBI_">> \o isin \o <<"_META_">> \o timestamp \o <<".xls">>

ZIP_FILE_PATTERN(isin, timestamp) ==
    <<"ITBI_">> \o isin \o <<"_">> \o timestamp \o <<".zip">>

(***************************************************************************)
(* Dicts: a sequence of [key, val] in insertion order                       *)
(***************************************************************************)
DictHas(d, key) == \E n \in DOMAIN d : d[n].key = key

\* d[key] = val
DictSet(d, key, val) ==
    IF DictHas(d, key)
    THEN [n \in DOMAIN d |-> IF d[n].key = key THEN [key |-> key, val |-> val] ELSE d[n]]
    ELSE Append(d, [key |-> key, val |-> val])

DictKeys(d) == {d[n].key : n \in DOMAIN d}

(***************************************************************************)
(* parser.py: get_unique_isins, prepare_isin_data, create_time_series_data, *)
(* create_metadata_rows                                                     *)
(***************************************************************************)
\* Series.unique(): the distinct values in order of first appearance
RECURSIVE Unique(_)
Unique(seq) ==
    IF seq = <<>> THEN <<>>
    ELSE LET front == Unique(SubSeq(seq, 1, Len(seq) - 1))
             last == seq[Len(seq)]
         IN IF last \in Range(front) THEN front ELSE Append(front, last)

\* get_unique_isins(df), for a table that has the ISIN column
get_unique_isins(t) ==
    Unique([k \in DOMAIN t.rows |-> t.rows[k].cells[ColPos(t.columns, ISIN)].v])

\* a < b for Timestamps
TsLess(a, b) ==
    \/ a[1] < b[1]
    \/ a[1] = b[1] /\ a[2] < b[2]
    \/ a[1] = b[1] /\ a[2] = b[2] /\ a[3] < b[3]

\* no sort: the rows stay in the order of the sheet
SortOrders_SourceOrder(t) == {[i \in 1 .. Len(t.rows) |-> i]}

\* DataFrame.sort_values('data asta') sorts with kind='quicksort', which is
\* not stable: every order of the rows that is ascending by date is a
\* possible result; rows of the same date come in any order.
SortOrders(t) ==
    LET pos == ColPos(t.columns, DATA_ASTA)
        n == Len(t.rows)
    IN {p \in {q \in [1 .. n -> 1 .. n] : \A i, j \in 1 .. n : i # j => q[i] # q[j]} :
          \A i \in 1 .. n - 1 : ~TsLess(t.rows[p[i + 1]].cells[pos].v, t.rows[p[i]].cells[pos].v)}

\* Series.dt.strftime('%Y-%m-%d'), one cell
convert_date_format(c) ==
    Str(ZeroPad(c.v[1], 4) \o <<"-">> \o ZeroPad(c.v[2], 2) \o <<"-">> \o ZeroPad(c.v[3], 2))

DATE_STR == <<"d", "a", "t", "e", "_", "s", "t", "r">>

\* the column prepare_isin_data takes for the description (0: none)
DescriptionColumn(columns) ==
    IF FuzzyColumn(columns, {<<"d", "e", "s", "c", "r", "i", "z", "i", "o", "n", "e">>, <<"d", "e", "s", "c", "r", "i", "p", "t", "i", "o", "n">>}) # 0
    THEN FuzzyColumn(columns, {<<"d", "e", "s", "c", "r", "i", "z", "i", "o", "n", "e">>, <<"d", "e", "s", "c", "r", "i", "p", "t", "i", "o", "n">>})
    ELSE IF Len(columns) > 5 THEN 6
    ELSE 0

\* df[df['ISIN'] == isin].copy()
IsinRows(t, isin) ==
    Filter(t, {k \in DOMAIN t.rows : t.rows[k].cells[ColPos(t.columns, ISIN)].v = isin})

\* the rows of t in the order p
Reorder(t, p) == [t EXCEPT !.rows = [i \in DOMAIN t.rows |-> t.rows[p[i]]]]

\* isin_data['date_str'] = convert_date_format(isin_data['data asta'])
WithDateStr(t) ==
    SetColumn(t, DATE_STR,
              [k \in DOMAIN t.rows |->
                 convert_date_format(t.rows[k].cells[ColPos(t.columns, DATA_ASTA)])])

\* the pair prepare_isin_data returns
Prepared(isin_data) ==
    [isin_data |-> isin_data,
     description |-> IF DescriptionColumn(isin_data.columns) # 0
                     THEN isin_data.rows[1].cells[DescriptionColumn(isin_data.columns)]
                     ELSE Str(<<>>)]

\* prepare_isin_data(df, isin), for the order p that the sort produced:
\* the identifier's rows with their date_str column, and the description
prepare_isin_data(t, isin, p) == Prepared(WithDateStr(Reorder(IsinRows(t, isin), p)))

\* a sort that may order the same table differently from call to call
sort_values_Unpinned(memo, t) == SortOrders(t)

\* the orders isin_data.sort_values('data asta') may produce for the table
\* t: which of SortOrders(t) comes out is not specified, but the sort is a
\* deterministic algorithm, so a table it has sorted before (memo) comes out
\* in the same order again
sort_values(memo, t) ==
    IF DictHas(memo, t)
    THEN {memo[CHOOSE n \in DOMAIN memo : memo[n].key = t].val}
    ELSE SortOrders(t)

\* column_mapping of create_time_series_data: the 0-based positional index
ColumnIndex(source_column) ==
    CASE source_column = <<"offerto">> -> 9
      [] source_column = <<"minimo offerto">> -> 10
      [] source_column = <<"massimo offerto">> -> 11
      [] source_column = <<"richiesto">> -> 12
      [] source_column = <<"assegnato">> -> 13
      [] OTHER -> -1

\* create_time_series_data(isin_data, description): for each metric the
\* (date, value) rows in the order of isin_data
create_time_series_data(isin_data) ==
    [ts_type \in Range(TIME_SERIES_ORDER) |->
        LET col_index == ColumnIndex(TIME_SERIES_MAPPING[ts_type].source_column)
            dpos == ColPos(isin_data.columns, DATE_STR)
        IN [k \in DOMAIN isin_data.rows |->
              [idx |-> isin_data.rows[k].idx,
               date |-> isin_data.rows[k].cells[dpos].v,
               value |-> IF col_index >= 0 /\ col_index < Len(isin_data.columns)
                         THEN isin_data.rows[k].cells[col_index + 1]
                         ELSE NaN]]]

\* str(x) of an f-string field
FormatCell(c) ==
    IF c.t = "float" THEN ZeroPad(c.v, 1) \o <<".0">>
    ELSE IF c.t = "bool" THEN (IF c.v THEN <<"True">> ELSE <<"False">>)
    ELSE AsTypeStr(c).v

\* f"{isin}.{suffix}"
MakeCode(isin, ts_type) == isin \o <<".">> \o TIME_SERIES_MAPPING[ts_type].suffix

\* MakeDesc with a space after the semicolon
MakeDesc_Spaced(isin, description, ts_type) ==
    <<"ISIN:">> \o isin \o <<"; ">> \o FormatCell(description) \o <<":">>
        \o TIME_SERIES_MAPPING[ts_type].description

\* f"ISIN:{isin};{description}:{mapping['description']}"
MakeDesc(isin, description, ts_type) ==
    <<"ISIN:">> \o isin \o <<";">> \o FormatCell(description) \o <<":">>
        \o TIME_SERIES_MAPPING[ts_type].description

\* the metadata_row dict after the column loop has filled what is missing
RECURSIVE FillColumns(_, _)
FillColumns(row, n) ==
    IF n = 0 THEN row
    ELSE LET sofar == FillColumns(row, n - 1)
         IN IF DictHas(sofar, METADATA_COLUMNS[n]) THEN sofar
            ELSE DictSet(sofar, METADATA_COLUMNS[n], Str(<<>>))

\* create_metadata_rows that leaves out the last metric
create_metadata_rows_FourRows(isin, description) ==
    [n \in 1 .. Len(TIME_SERIES_ORDER) - 1 |->
        FillColumns(
            DictSet(DictSet(METADATA_DEFAULTS, <<"CODE">>, Str(MakeCode(isin, TIME_SERIES_ORDER[n]))),
                    <<"DESCRIPTION">>, Str(MakeDesc(isin, description, TIME_SERIES_ORDER[n]))),
            Len(METADATA_COLUMNS))]

\* create_metadata_rows(isin, description, current_month)
create_metadata_rows(isin, description) ==
    [n \in DOMAIN TIME_SERIES_ORDER |->
        FillColumns(
            DictSet(DictSet(METADATA_DEFAULTS, <<"CODE">>, Str(MakeCode(isin, TIME_SERIES_ORDER[n]))),
                    <<"DESCRIPTION">>, Str(MakeDesc(isin, description, TIME_SERIES_ORDER[n]))),
            Len(METADATA_COLUMNS))]


(***************************************************************************)
(* file_generator_xls.py and file_generator.py: the artifacts              *)
(*                                                                         *)
(* A sheet is the sequence of its file rows, each the sequence of its      *)
(* cells; the cell written for '' is Blank.                                *)
(***************************************************************************)
Blank == Str(<<>>)

\* datetime(y, m, d) - timedelta(days=1)
MinusOneDay(y, m, d) ==
    IF d > 1 THEN <<y, m, d - 1>>
    ELSE IF m > 1 THEN <<y, m - 1, DaysInMonth(y, m - 1)>>
    ELSE <<y - 1, 12, 31>>

\* the last day of a month: the first day of the next month, minus one day
LastDayOf(year, month) ==
    IF month = 12 THEN MinusOneDay(year + 1, 1, 1) ELSE MinusOneDay(year, month + 1, 1)

\* strftime('%Y%m%d')
FormatYmd(day) == ZeroPad(day[1], 4) \o ZeroPad(day[2], 2) \o ZeroPad(day[3], 2)

\* year, month = map(int, year_month_str.split('-')), the dash being at dash
TimestampOf(year_month_str, dash) ==
    FormatYmd(LastDayOf(ParseInt(SubSeq(year_month_str, 1, dash - 1)),
                        ParseInt(SubSeq(year_month_str, dash + 1, Len(year_month_str)))))

\* file_generator_xls.get_timestamp_from_month(year_month_str)
get_timestamp_from_month(year_month_str) ==
    TimestampOf(year_month_str, CHOOSE i \in DOMAIN year_month_str : year_month_str[i] = "-")

\* file_generator: current_month.replace("-", "")
legacy_timestamp(current_month) ==
    Pick(current_month, {i \in DOMAIN current_month : current_month[i] # "-"}, Len(current_month))

\* sorted(S) for a set of str
RECURSIVE SortStrings(_)
SortStrings(S) ==
    IF S = {} THEN <<>>
    ELSE LET lo == CHOOSE a \in S : \A b \in S : ~StrLess(b, a)
         IN <<lo>> \o SortStrings(S \ {lo})

\* all_dates: the dates of all the series
AllDates(time_series) ==
    UNION {{time_series[ts_type][k].date : k \in DOMAIN time_series[ts_type]} :
             ts_type \in Range(TIME_SERIES_ORDER)}

\* ts_df[ts_df['date'] == date].iloc[0]['value'] (NaN when no row has the date)
FirstValue(ts_df, date) ==
    LET hits == {k \in DOMAIN ts_df : ts_df[k].date = date}
    IN IF hits = {} THEN NaN
       ELSE ts_df[CHOOSE k \in hits : \A j \in hits : k <= j].value

\* the types xlwt's Row.write and openpyxl take as a cell value
Writable(c) == c.t \in {"str", "num", "float", "bool", "ts"}

\* DataCellXls with "if not value" for the NaN test: a zero goes blank too
DataCellXls_FalsyBlank(value) ==
    IF value.t = "nan" \/ value = Num(0) THEN Blank ELSE value

\* the cell create_data_file_xls writes for a value: '' for None / NaN
DataCellXls(value) == IF value.t = "nan" THEN Blank ELSE value

\* the cell create_data_file puts in the row for a value: '' when pd.isna
DataCellLegacy(value) == IF value.t \in {"nan", "nat"} THEN Blank ELSE value

\* row 1 of create_data_file_xls: the blank cell and the 5 codes
CodeRow(isin) ==
    <<Blank>> \o [n \in DOMAIN TIME_SERIES_ORDER |-> Str(MakeCode(isin, TIME_SERIES_ORDER[n]))]

\* row 2 of create_data_file_xls: the blank cell and the 5 descriptions
DescRow(isin, description) ==
    <<Blank>> \o [n \in DOMAIN TIME_SERIES_ORDER |->
                    Str(MakeDesc(isin, description, TIME_SERIES_ORDER[n]))]

\* the dated rows: one per date of sorted(all_dates), the date and the first
\* value of each series for it, as the generator gen writes it
DataRows(time_series, gen) ==
    LET sorted_dates == SortStrings(AllDates(time_series))
    IN [r \in DOMAIN sorted_dates |->
          <<Str(sorted_dates[r])>> \o
          [n \in DOMAIN TIME_SERIES_ORDER |->
              LET value == FirstValue(time_series[TIME_SERIES_ORDER[n]], sorted_dates[r])
              IN IF gen = "xls" THEN DataCellXls(value) ELSE DataCellLegacy(value)]]

\* whether every cell of the sheet can be written
SheetWritable(sheet) ==
    \A r \in DOMAIN sheet : \A c \in DOMAIN sheet[r] : Writable(sheet[r][c])

\* file_generator_xls.create_data_file_xls: the sheet written
create_data_file_xls(isin, time_series, description) ==
    <<CodeRow(isin), DescRow(isin, description)>> \o DataRows(time_series, "xls")

\* file_generator.create_data_file: data_rows goes into a DataFrame whose
\* columns are DATE and the codes, and to_excel(index=False) writes the
\* column labels as the first file row
create_data_file(isin, time_series, description) ==
    LET columns == <<Str(<<"DATE">>)>> \o
                   [n \in DOMAIN TIME_SERIES_ORDER |-> Str(MakeCode(isin, TIME_SERIES_ORDER[n]))]
        data_rows == <<CodeRow(isin), DescRow(isin, description)>>
                     \o DataRows(time_series, "legacy")
    IN <<columns>> \o data_rows

\* what create_meta_file_xls writes for a value of a metadata row
MetaCellXls(value) ==
    IF value.t = "bool" THEN value
    ELSE IF value = Blank THEN Blank
    ELSE Str(FormatCell(value))

HeaderRow == [c \in DOMAIN METADATA_COLUMNS |-> Str(METADATA_COLUMNS[c])]

\* metadata.get(col_name, '')
MetaGet(metadata, col_name) ==
    IF DictHas(metadata, col_name)
    THEN metadata[CHOOSE n \in DOMAIN metadata : metadata[n].key = col_name].val
    ELSE Blank

\* file_generator_xls.create_meta_file_xls: the sheet written
create_meta_file_xls(metadata_rows) ==
    <<HeaderRow>> \o
    [r \in DOMAIN metadata_rows |->
        [c \in DOMAIN METADATA_COLUMNS |-> MetaCellXls(MetaGet(metadata_rows[r], METADATA_COLUMNS[c]))]]

\* file_generator.create_meta_file: the DataFrame of the rows, its columns
\* reordered to METADATA_COLUMNS, written with its header
create_meta_file(metadata_rows) ==
    <<HeaderRow>> \o
    [r \in DOMAIN metadata_rows |->
        [c \in DOMAIN METADATA_COLUMNS |-> MetaGet(metadata_rows[r], METADATA_COLUMNS[c])]]

\* the timestamp of the file names, by generator
Timestamp(gen, current_month) ==
    IF gen = "xls" THEN get_timestamp_from_month(current_month)
    ELSE legacy_timestamp(current_month)


(***************************************************************************)
(* The run: parse_auction_data, then generate_all_files                    *)
(***************************************************************************)
\* what parse_auction_data returns at each of its return statements: the
\* dict when the loops complete, None everywhere else (after "No valid ISIN
\* rows found", "No month data found", "No data for specified month found",
\* and in the except clause)
ReturnedAt(site) == [value |-> IF site = "complete" THEN "dict" ELSE "None", at |-> site]

\* df.iloc[2:].reset_index(drop=True).dropna(how='all')
SkipAndDrop(t) ==
    LET skipped == [k \in 1 .. (IF Len(t.rows) > 2 THEN Len(t.rows) - 2 ELSE 0) |->
                      [idx |-> k - 1, cells |-> t.rows[k + 2].cells]]
    IN [columns |-> t.columns,
        rows |-> Pick(skipped,
                      {k \in DOMAIN skipped :
                         \E c \in DOMAIN skipped[k].cells : skipped[k].cells[c].t # "nan"},
                      Len(skipped))]

\* a step of main that proceeds with nothing to proceed with
Download_IgnoresFailure ==
    /\ pc = "download"
    /\ pc' = "read"
    /\ xls_file' \in {"path", "None"}
    /\ UNCHANGED <<generator, target_month, process_all, xls, df, df_clean,
                   month_data_result, todo, parsed_data, ret, gen_i, files, file_paths>>
    /\ UNCHANGED <<run, prev_files, sort_memo>>

\* main up to the end of step 1.  main_fixed shows the configuration before
\* its try block: with TARGET_MONTH neither None nor a pair,
\* "year, month = TARGET_MONTH" raises and main ends with the exception.
\* download_latest_auction_file returns the path of the sheet, or None, and
\* then main returns its failure value.
Download ==
    /\ pc = "download"
    /\ IF generator = "xls" /\ ~process_all /\ target_month # <<>> /\ Len(target_month) # 2
       THEN pc' = "crashed" /\ xls_file' = xls_file
       ELSE \E path \in {"path", "None"} :
              /\ xls_file' = path
              /\ pc' = IF path = "None" THEN "failed" ELSE "read"
    /\ UNCHANGED <<generator, target_month, process_all, xls, df, df_clean,
                   month_data_result, todo, parsed_data, ret, gen_i, files, file_paths>>
    /\ UNCHANGED <<run, prev_files, sort_memo>>

\* parser.py 356-366: read the sheet, skip two rows, drop the empty rows
ReadXls ==
    /\ pc = "read"
    /\ df' = SkipAndDrop(xls)
    /\ pc' = "clean"
    /\ UNCHANGED <<generator, target_month, process_all, xls, df_clean,
                   month_data_result, todo, parsed_data, ret, gen_i, files, file_paths>>
    /\ UNCHANGED <<xls_file, run, prev_files, sort_memo>>

\* what parse_auction_data does with the result r of clean_isin_column
CleanIsinWith(r) ==
    /\ df' = r.arg
    /\ df_clean' = r.out
    /\ IF Len(r.out.rows) = 0
       THEN pc' = "parsed" /\ ret' = ReturnedAt("no_valid_isin")
       ELSE pc' = "month" /\ ret' = ret

\* parser.py 369-374: df_clean = clean_isin_column(df), None when it is empty
CleanIsin ==
    /\ pc = "clean"
    /\ CleanIsinWith(clean_isin_column(df))
    /\ UNCHANGED <<generator, target_month, process_all, xls,
                   month_data_result, todo, parsed_data, gen_i, files, file_paths>>
    /\ UNCHANGED <<xls_file, run, prev_files, sort_memo>>

\* the identifiers of one month, as the pairs the inner loop visits
MonthTodo(n, isins) == [k \in DOMAIN isins |-> [n |-> n, isin |-> isins[k]]]

\* the (month item, identifier) pairs the loops of parse_auction_data visit,
\* in order; n is the position of the month in the mapping (0: single month)
RECURSIVE AllTodo(_, _)
AllTodo(items, n) ==
    IF n > Len(items) THEN <<>>
    ELSE MonthTodo(n, get_unique_isins(items[n].val)) \o AllTodo(items, n + 1)

\* what parse_auction_data does with the result r of get_month_data
GetMonthWith(r) ==
    /\ df_clean' = r.arg
    /\ month_data_result' = r.out
    /\ IF process_all /\ r.out.items = <<>>
       THEN pc' = "parsed" /\ ret' = ReturnedAt("no_month_data")
            /\ todo' = <<>>
       ELSE IF ~process_all /\ Len(r.out.data.rows) = 0
       THEN pc' = "parsed" /\ ret' = ReturnedAt("empty_month")
            /\ todo' = <<>>
       ELSE IF ISIN \notin Range(df_clean.columns)
       THEN pc' = "parsed" /\ ret' = ReturnedAt("exception")
            /\ todo' = <<>>
       ELSE /\ pc' = "loop"
            /\ ret' = ret
            /\ todo' = IF process_all THEN AllTodo(r.out.items, 1)
                       ELSE MonthTodo(0, get_unique_isins(r.out.data))

\* parser.py 377-447: get_month_data and the checks before the identifier
\* loop.  df['ISIN'] of get_unique_isins raises KeyError when no identifier
\* column was found, which the except clause turns into None.
GetMonth ==
    /\ pc = "month"
    /\ GetMonthWith(get_month_data(df_clean, target_month, process_all))
    /\ UNCHANGED <<generator, target_month, process_all, xls, df,
                   parsed_data, gen_i, files, file_paths>>
    /\ UNCHANGED <<xls_file, run, prev_files, sort_memo>>

\* the table and label of a todo entry
TodoData(e) == IF e.n = 0 THEN month_data_result.data ELSE month_data_result.items[e.n].val

TodoLabel(e) == IF e.n = 0 THEN month_data_result.label ELSE month_data_result.items[e.n].key

\* the entry of an identifier: e is the todo entry, prep what
\* prepare_isin_data returned for it
Entry(e, prep) ==
    [has_isin |-> process_all,
     isin |-> e.isin,
     description |-> prep.description,
     time_series |-> create_time_series_data(prep.isin_data),
     metadata |-> create_metadata_rows(e.isin, prep.description),
     current_month |-> TodoLabel(e)]

\* the loop body for the todo entry e
ProcessEntry(e) ==
    \E p \in sort_values(sort_memo, IsinRows(TodoData(e), e.isin)) :
      /\ parsed_data' = DictSet(parsed_data,
                                IF process_all THEN e.isin \o <<"_">> \o TodoLabel(e) ELSE e.isin,
                                Entry(e, prepare_isin_data(TodoData(e), e.isin, p)))
      /\ sort_memo' = DictSet(sort_memo, IsinRows(TodoData(e), e.isin), p)

\* parser.py 403-425 / 452-470: one identifier of one month
ProcessIsin ==
    /\ pc = "loop"
    /\ todo # <<>>
    /\ ProcessEntry(Head(todo))
    /\ todo' = Tail(todo)
    /\ UNCHANGED <<pc, generator, target_month, process_all, xls, df, df_clean,
                   month_data_result, ret, gen_i, files, file_paths>>
    /\ UNCHANGED <<xls_file, run, prev_files>>

\* parser.py 432 / 477: the loops are over, the dict is returned
ParseReturn ==
    /\ pc = "loop"
    /\ todo = <<>>
    /\ pc' = "parsed"
    /\ ret' = ReturnedAt("complete")
    /\ UNCHANGED <<generator, target_month, process_all, xls, df, df_clean,
                   month_data_result, todo, parsed_data, gen_i, files, file_paths>>
    /\ UNCHANGED <<xls_file, run, prev_files, sort_memo>>

\* main: "if not parsed_data: return None", else generate_all_files begins
StartGenerate ==
    /\ pc = "parsed"
    /\ IF ret.value = "None" \/ parsed_data = <<>>
       THEN pc' = "failed" /\ gen_i' = gen_i
       ELSE pc' = "gen_meta" /\ gen_i' = 1
    /\ UNCHANGED <<generator, target_month, process_all, xls, df, df_clean,
                   month_data_result, todo, parsed_data, ret, files, file_paths>>
    /\ UNCHANGED <<xls_file, run, prev_files, sort_memo>>

\* the identifier generate_all_files passes on for an item of parsed_data
ItemIsin(item) == IF generator = "xls" /\ item.val.has_isin THEN item.val.isin ELSE item.key

\* wb.save(filepath) / to_excel(filepath): the file is created or replaced
WriteFile(fs, path, content) ==
    [q \in DOMAIN fs \cup {path} |-> IF q = path THEN content ELSE fs[q]]

MetaPath(item) ==
    META_FILE_PATTERN(ItemIsin(item), Timestamp(generator, item.val.current_month))

DataPath(item) ==
    DATA_FILE_PATTERN(ItemIsin(item), Timestamp(generator, item.val.current_month))

ZipPath(item) ==
    ZIP_FILE_PATTERN(ItemIsin(item), Timestamp(generator, item.val.current_month))

\* the step after the last file of an item
NextItem == IF gen_i < Len(parsed_data) THEN "gen_meta" ELSE "verify"

\* the write of the metadata sheet; it raises when a cell cannot be written
\* or the file cannot be saved
WriteMeta(item, sheet) ==
    \E ok \in BOOLEAN :
      IF ok /\ SheetWritable(sheet)
      THEN /\ files' = WriteFile(files, MetaPath(item), [kind |-> "meta", body |-> sheet])
           /\ pc' = "gen_data"
      ELSE /\ files' = files
           /\ pc' = "failed"

\* create_meta_file_xls / create_meta_file for the current item; a write
\* that fails raises, and main returns its failure value
CreateMeta ==
    /\ pc = "gen_meta"
    /\ WriteMeta(parsed_data[gen_i],
                 IF generator = "xls" THEN create_meta_file_xls(parsed_data[gen_i].val.metadata)
                 ELSE create_meta_file(parsed_data[gen_i].val.metadata))
    /\ UNCHANGED <<generator, target_month, process_all, xls, df, df_clean,
                   month_data_result, todo, parsed_data, ret, gen_i, file_paths>>
    /\ UNCHANGED <<xls_file, run, prev_files, sort_memo>>

\* the write of the data sheet; file_generator has no archive step, and
\* records the paths of the item right away
WriteData(item, sheet) ==
    \E ok \in BOOLEAN :
      IF ok /\ SheetWritable(sheet)
      THEN /\ files' = WriteFile(files, DataPath(item), [kind |-> "data", body |-> sheet])
           /\ IF generator = "xls"
              THEN pc' = "gen_zip" /\ file_paths' = file_paths /\ gen_i' = gen_i
              ELSE /\ pc' = NextItem
                   /\ gen_i' = gen_i + 1
                   /\ file_paths' = DictSet(file_paths, item.key,
                          [meta_file |-> MetaPath(item), data_file |-> DataPath(item),
                           zip_file |-> <<>>])
      ELSE /\ files' = files
           /\ pc' = "failed"
           /\ UNCHANGED <<file_paths, gen_i>>

\* create_data_file_xls / create_data_file for the current item
CreateData ==
    /\ pc = "gen_data"
    /\ WriteData(parsed_data[gen_i],
                 IF generator = "xls"
                 THEN create_data_file_xls(ItemIsin(parsed_data[gen_i]),
                                           parsed_data[gen_i].val.time_series,
                                           parsed_data[gen_i].val.description)
                 ELSE create_data_file(ItemIsin(parsed_data[gen_i]),
                                       parsed_data[gen_i].val.time_series,
                                       parsed_data[gen_i].val.description))
    /\ UNCHANGED <<generator, target_month, process_all, xls, df, df_clean,
                   month_data_result, todo, parsed_data, ret>>
    /\ UNCHANGED <<xls_file, run, prev_files, sort_memo>>

\* an archive step that keeps only the archive
WriteZip_RemovesFiles(item) ==
    /\ files' = [q \in (DOMAIN files \ {MetaPath(item), DataPath(item)}) \cup {ZipPath(item)} |->
                   IF q = ZipPath(item)
                   THEN [kind |-> "zip",
                         body |-> <<[name |-> MetaPath(item), content |-> files[MetaPath(item)]],
                                    [name |-> DataPath(item), content |-> files[DataPath(item)]]>>]
                   ELSE files[q]]
    /\ pc' = NextItem
    /\ gen_i' = gen_i + 1
    /\ file_paths' = DictSet(file_paths, item.key,
           [meta_file |-> MetaPath(item), data_file |-> DataPath(item),
            zip_file |-> ZipPath(item)])

\* the write of the archive of an item: its two files under their base names
WriteZip(item) ==
    \E ok \in BOOLEAN :
      IF ok
      THEN /\ files' = WriteFile(files, ZipPath(item), [kind |-> "zip",
                                  body |-> <<[name |-> MetaPath(item), content |-> files[MetaPath(item)]],
                                             [name |-> DataPath(item), content |-> files[DataPath(item)]]>>])
           /\ pc' = NextItem
           /\ gen_i' = gen_i + 1
           /\ file_paths' = DictSet(file_paths, item.key,
                  [meta_file |-> MetaPath(item), data_file |-> DataPath(item),
                   zip_file |-> ZipPath(item)])
      ELSE /\ files' = files
           /\ pc' = "failed"
           /\ UNCHANGED <<file_paths, gen_i>>

\* file_generator_xls.create_zip_package for the current item: the archive
\* holds the two files under their base names
CreateZip ==
    /\ pc = "gen_zip"
    /\ WriteZip(parsed_data[gen_i])
    /\ UNCHANGED <<generator, target_month, process_all, xls, df, df_clean,
                   month_data_result, todo, parsed_data, ret>>
    /\ UNCHANGED <<xls_file, run, prev_files, sort_memo>>

\* verify_generated_files and show_summary: main returns its success value
Verify ==
    /\ pc = "verify"
    /\ pc' = "done"
    /\ UNCHANGED <<generator, target_month, process_all, xls, df, df_clean,
                   month_data_result, todo, parsed_data, ret, gen_i, files, file_paths>>
    /\ UNCHANGED <<xls_file, run, prev_files, sort_memo>>

\* main is run again on the same sheet with the same configuration, after a
\* run that produced its files.  OUTPUT_DIR has RUN_TIMESTAMP in it
\* (config.py 21, 202), so the second run writes into a directory of its own.
Rerun ==
    /\ pc = "done"
    /\ run = 1
    /\ run' = 2
    /\ prev_files' = files
    /\ files' = <<>>
    /\ pc' = "download"
    /\ xls_file' = "unset"
    /\ df' = EmptyFrame
    /\ df_clean' = EmptyFrame
    /\ month_data_result' = [kind |-> "unset"]
    /\ todo' = <<>>
    /\ parsed_data' = <<>>
    /\ ret' = [value |-> "unset", at |-> "none"]
    /\ gen_i' = 0
    /\ file_paths' = <<>>
    /\ UNCHANGED <<generator, target_month, process_all, xls, sort_memo>>

Next ==
    \/ Download
    \/ ReadXls
    \/ CleanIsin
    \/ GetMonth
    \/ ProcessIsin
    \/ ParseReturn
    \/ StartGenerate
    \/ CreateMeta
    \/ CreateData
    \/ CreateZip
    \/ Verify
    \/ Rerun


(***************************************************************************)
(* Inputs: the sheets, modes and generators a run starts from              *)
(***************************************************************************)
\* the most rows of data a sheet has
MaxRows == 3

\* the layout the source documents (parser.py 243-248); the *_at fields say
\* where a sheet of this layout carries the identifier, the auction date,
\* the description and the 5 amounts (OFR, MIN, MAX, REQ, ASGN)
StdLayout ==
    [columns |-> <<<<"d", "a", "t", "a", " ", "a", "s", "t", "a">>, <<"d", "a", "t", "a", " ", "r", "e", "g", "o", "l", "a", "m", "e", "n", "t", "o">>, <<"I", "S", "I", "N">>, <<"n", "u", "m", "e", "r", "o", " ", "t", "r", "a", "n", "c", "h", "e">>,
                   <<"o", "r", "d", "i", "n", "a", "r", "i", "a", " ", "(", "O", ")", " ", "/", " ", "s", "u", "p", "p", "l", "e", "m", "e", "n", "t", "a", "r", "e", " ", "(", "S", ")">>, <<"d", "e", "s", "c", "r", "i", "z", "i", "o", "n", "e">>,
                   <<"d", "a", "t", "a", " ", "s", "c", "a", "d", "e", "n", "z", "a">>, <<"c", "o", "e", "f", "f", "i", "c", "i", "e", "n", "t", "e", " ", "d", "i", " ", "i", "n", "d", "i", "c", "i", "z", "z", "a", "z", "i", "o", "n", "e">>,
                   <<"t", "i", "p", "o", " ", "t", "i", "t", "o", "l", "o">>, <<"U", "n", "n", "a", "m", "e", "d", ":", " ", "9">>, <<"U", "n", "n", "a", "m", "e", "d", ":", " ", "1", "0">>,
                   <<"i", "m", "p", "o", "r", "t", "i", " ", "(", "m", "l", "n", " ", "e", "u", "r", "o", ")">>, <<"U", "n", "n", "a", "m", "e", "d", ":", " ", "1", "2">>, <<"U", "n", "n", "a", "m", "e", "d", ":", " ", "1", "3">>,
                   <<"p", "r", "e", "z", "z", "o", " ", "a", "g", "g", "i", "u", "d", "i", "c", "a", "z", "i", "o", "n", "e">>, <<"r", "e", "n", "d", "i", "m", "e", "n", "t", "o", " ", "a", "g", "g", "i", "u", "d", "i", "c", "a", "z", "i", "o", "n", "e", " ", "(", "B", "O", "T", ")">>,
                   <<"r", "e", "n", "d", "i", "m", "e", "n", "t", "o", " ", "a", "g", "g", "i", "u", "d", "i", "c", "a", "z", "i", "o", "n", "e", " ", "(", "a", "l", "t", "r", "i", " ", "t", "i", "t", "o", "l", "i", ")">>,
                   <<"n", "u", "m", "e", "r", "o", " ", " ", "o", "p", "e", "r", "a", "t", "o", "r", "i", " ", "p", "a", "r", "t", "e", "c", "i", "p", "a", "n", "t", "i">>>>,
     date_at |-> 1, isin_at |-> 3, desc_at |-> 6, vals_at |-> <<10, 11, 12, 13, 14>>]

\* a sheet of two columns, neither of them recognisable as the identifier
TwoColLayout ==
    [columns |-> <<<<"d", "a", "t", "a", " ", "a", "s", "t", "a">>, <<"c", "o", "d", "i", "c", "e">>>>,
     date_at |-> 1, isin_at |-> 2, desc_at |-> 0, vals_at |-> <<0, 0, 0, 0, 0>>]

\* the cells of a sheet row of layout l for the input row r
MakeCells(l, r) ==
    [c \in DOMAIN l.columns |->
        IF c = l.isin_at THEN r.isin
        ELSE IF c = l.date_at THEN r.date
        ELSE IF c = l.desc_at THEN r.desc
        ELSE IF \E n \in 1 .. 5 : l.vals_at[n] = c
             THEN r.vals[CHOOSE n \in 1 .. 5 : l.vals_at[n] = c]
        ELSE NaN]

\* the two rows under the header row that parse_auction_data skips: the
\* second header line (the labels of the amounts) and an empty row
SubHeader ==
    [isin |-> NaN, date |-> NaN, desc |-> NaN,
     vals |-> [n \in 1 .. 5 |-> Str(TIME_SERIES_MAPPING[TIME_SERIES_ORDER[n]].source_column)]]

EmptyRow == [isin |-> NaN, date |-> NaN, desc |-> NaN, vals |-> [n \in 1 .. 5 |-> NaN]]

\* the sheet read_excel(header=1) returns for layout l and data rows rs
MakeSheet(l, rs) ==
    LET all == <<SubHeader, EmptyRow>> \o rs
    IN [columns |-> l.columns,
        rows |-> [k \in DOMAIN all |-> [idx |-> k - 1, cells |-> MakeCells(l, all[k])]]]

\* identifiers: two that match ^IT\d{11}$, a 12-character ISIN and a text
\* with IT and digits inside (relaxed only), an IT code without digits,
\* the empty text and a missing cell
IsinStrictA == Str(<<"I", "T", "0", "0", "0", "0", "0", "0", "0", "0", "0", "0", "1">>)
IsinStrictB == Str(<<"I", "T", "0", "0", "0", "0", "0", "0", "0", "0", "0", "0", "2">>)
IsinTwelve == Str(<<"I", "T", "0", "0", "0", "0", "0", "0", "0", "0", "0", "1">>)
IsinInside == Str(<<"x", "I", "T", "5">>)
IsinAlpha == Str(<<"I", "T", "A", "B", "C", "D", "E", "F", "G", "H", "I", "J">>)

AllIsins == {IsinStrictA, IsinStrictB, IsinTwelve, IsinInside, IsinAlpha, Blank, NaN}

\* auction dates: day-first texts, one of them no calendar date, and a
\* missing cell
DateOct15 == Str(<<"1", "5", "/", "1", "0", "/", "2", "0", "2", "5">>)
DateOct20 == Str(<<"2", "0", "/", "1", "0", "/", "2", "0", "2", "5">>)
DateSep05 == Str(<<"0", "5", "/", "0", "9", "/", "2", "0", "2", "5">>)
DateFeb31 == Str(<<"3", "1", "/", "0", "2", "/", "2", "0", "2", "5">>)

\* amounts: a zero and a missing value among them
ValsA == <<Num(0), NaN, Num(3), Num(4), Num(5)>>
ValsB == <<Num(7), Num(2), NaN, Num(4), Num(0)>>

DescBTP == Str(<<"B", "T", "P">>)
DescBOT == Str(<<"B", "O", "T">>)

Auto == [tm |-> <<>>, all |-> FALSE]
Specific(y, m) == [tm |-> <<y, m>>, all |-> FALSE]
All == [tm |-> <<>>, all |-> TRUE]

\* the sheets of at most MaxRows data rows drawn from pool
Sheets(layouts, pool) ==
    {MakeSheet(l, rs) : l \in layouts, rs \in UNION {[1 .. n -> pool] : n \in 0 .. MaxRows}}

\* a run about to start; main.py (the legacy generator) always
\* parses in mode auto
InitWith(sheets, modes, gens) ==
    /\ pc = "download"
    /\ xls_file = "unset"
    /\ generator \in gens
    /\ \E m \in modes :
         /\ target_month = m.tm
         /\ process_all = m.all
         /\ generator = "legacy" => m = Auto
    /\ xls \in sheets
    /\ df = EmptyFrame
    /\ df_clean = EmptyFrame
    /\ month_data_result = [kind |-> "unset"]
    /\ todo = <<>>
    /\ parsed_data = <<>>
    /\ ret = [value |-> "unset", at |-> "none"]
    /\ gen_i = 0
    /\ files = <<>>
    /\ file_paths = <<>>
    /\ run = 1
    /\ prev_files = <<>>
    /\ sort_memo = <<>>

\* every identifier, one auction date: the identifier filter; a strict
\* identifier whose date is no calendar date beside a 12-character ISIN
\* with a date: the filter and the dates
InitFilter ==
    \/ InitWith(Sheets({StdLayout, TwoColLayout},
                       [isin : AllIsins, date : {DateOct15}, desc : {DescBTP}, vals : {ValsA}]),
                {Auto}, {"xls"})
    \/ InitWith(Sheets({StdLayout},
                       {[isin |-> IsinStrictA, date |-> DateFeb31, desc |-> DescBTP, vals |-> ValsA],
                        [isin |-> IsinStrictB, date |-> DateOct15, desc |-> DescBTP, vals |-> ValsA],
                        [isin |-> IsinTwelve, date |-> DateOct15, desc |-> DescBTP, vals |-> ValsA]}),
                {Auto, All}, {"xls"})

\* two identifiers in two months, a date that is no calendar date and a
\* missing date
MonthPool ==
    {[isin |-> IsinStrictA, date |-> DateOct15, desc |-> DescBTP, vals |-> ValsA],
     [isin |-> IsinStrictA, date |-> DateSep05, desc |-> DescBTP, vals |-> ValsA],
     [isin |-> IsinStrictB, date |-> DateSep05, desc |-> DescBTP, vals |-> ValsA],
     [isin |-> IsinStrictA, date |-> DateFeb31, desc |-> DescBTP, vals |-> ValsA],
     [isin |-> IsinStrictB, date |-> NaN, desc |-> DescBTP, vals |-> ValsA]}

\* several months and unparseable dates in the modes auto and all; a
\* requested month, with and without PROCESS_ALL_MONTHS = True, and
\* TARGET_MONTH = 'all' (the third option of the comment in config.py) on
\* sheets of two months where one identifier has no parseable date
InitMonth ==
    \/ InitWith(Sheets({StdLayout}, MonthPool),
                {Auto, All}, {"xls"})
    \/ InitWith(Sheets({StdLayout},
                       {[isin |-> IsinStrictA, date |-> DateOct15, desc |-> DescBTP, vals |-> ValsA],
                        [isin |-> IsinStrictA, date |-> DateSep05, desc |-> DescBTP, vals |-> ValsA],
                        [isin |-> IsinStrictB, date |-> DateFeb31, desc |-> DescBTP, vals |-> ValsA]}),
                {Specific(2025, 9), Specific(2025, 1),
                 [tm |-> <<2025, 9>>, all |-> TRUE], [tm |-> <<"a", "l", "l">>, all |-> FALSE]},
                {"xls"})
    \/ InitWith(Sheets({TwoColLayout},
                       [isin : {IsinStrictA}, date : {DateOct15, DateFeb31},
                        desc : {NaN}, vals : {<<NaN, NaN, NaN, NaN, NaN>>}]),
                {Auto, All}, {"xls"})

\* same-day rows with different amounts, several identifiers and days, both
\* generators: the artifacts; one row in each month of a common year, a
\* leap year and two century years: the timestamp of the file names
DataPool ==
    {[isin |-> IsinStrictA, date |-> DateOct15, desc |-> DescBTP, vals |-> ValsA],
     [isin |-> IsinStrictA, date |-> DateOct15, desc |-> DescBOT, vals |-> ValsB],
     [isin |-> IsinStrictA, date |-> DateOct20, desc |-> DescBTP, vals |-> ValsB],
     [isin |-> IsinStrictB, date |-> DateOct15, desc |-> DescBOT, vals |-> ValsA]}

InitData ==
    \/ InitWith(Sheets({StdLayout}, DataPool), {Auto}, {"xls"})
    \/ InitWith(Sheets({StdLayout},
                       {[isin |-> IsinStrictA, date |-> DateOct15, desc |-> DescBTP, vals |-> ValsA],
                        [isin |-> IsinStrictA, date |-> DateSep05, desc |-> DescBTP, vals |-> ValsA],
                        [isin |-> IsinStrictB, date |-> DateOct15, desc |-> DescBOT, vals |-> ValsA]}),
                {Auto, All}, {"xls"})
    \/ InitWith(Sheets({StdLayout},
                       {[isin |-> IsinStrictA, date |-> DateOct15, desc |-> DescBTP, vals |-> ValsA],
                        [isin |-> IsinStrictA, date |-> DateOct20, desc |-> DescBTP, vals |-> ValsB],
                        [isin |-> IsinStrictB, date |-> DateOct15, desc |-> DescBOT, vals |-> ValsA]}),
                {Auto}, {"legacy"})
    \/ InitWith({MakeSheet(StdLayout,
                           <<[isin |-> IsinStrictA,
                              date |-> Str(<<"1", "5", "/">> \o ZeroPad(month, 2) \o <<"/">> \o ZeroPad(year, 4)),
                              desc |-> DescBTP, vals |-> ValsA]>>) :
                    year \in {1900, 2000, 2024, 2025}, month \in 1 .. 12},
                {Auto}, {"xls"})

\* header rows for the detection of the identifier and date columns: the
\* exact labels to the right of labels that only contain 'isin' and 'data';
\* several labels that contain them, in upper and lower case; no such
\* label, in three columns; the identifier in the first column
ExactLayout ==
    [columns |-> <<<<"D", "a", "t", "a", " ", "r", "e", "g", "o", "l", "a", "m", "e", "n", "t", "o">>, <<"C", "o", "d", "i", "c", "e", " ", "I", "S", "I", "N">>, <<"I", "S", "I", "N">>, <<"d", "a", "t", "a", " ", "a", "s", "t", "a">>>>,
     date_at |-> 4, isin_at |-> 3, desc_at |-> 0, vals_at |-> <<0, 0, 0, 0, 0>>]

FuzzyLayout ==
    [columns |-> <<<<"t", "i", "p", "o">>, <<"D", "A", "T", "A", " ", "A", "s", "t", "a">>, <<"U", "p", "d", "a", "t", "e">>, <<"C", "o", "d", ".", "I", "s", "i", "n">>, <<"I", "S", "I", "N", ".", "1">>>>,
     date_at |-> 2, isin_at |-> 4, desc_at |-> 0, vals_at |-> <<0, 0, 0, 0, 0>>]

PositionalLayout ==
    [columns |-> <<<<"g", "i", "o", "r", "n", "o">>, <<"t", "i", "p", "o">>, <<"c", "o", "d", "i", "c", "e">>>>,
     date_at |-> 1, isin_at |-> 3, desc_at |-> 0, vals_at |-> <<0, 0, 0, 0, 0>>]

IsinFirstLayout ==
    [columns |-> <<<<"I", "S", "I", "N">>, <<"g", "i", "o", "r", "n", "o">>, <<"t", "i", "p", "o">>>>,
     date_at |-> 2, isin_at |-> 1, desc_at |-> 0, vals_at |-> <<0, 0, 0, 0, 0>>]

\* two identifiers in two months under each of these header rows, and under
\* the one of two columns: the detection chain.  One identifier on two days
\* under the first 4, 5, 9 and 12 columns of the documented layout (sheets
\* that lack the columns to the right) and under a header row that names
\* two of the metrics: the positional columns
InitColumns ==
    \/ InitWith(Sheets({ExactLayout, FuzzyLayout, PositionalLayout, IsinFirstLayout, TwoColLayout},
                       {[isin |-> IsinStrictA, date |-> DateOct15, desc |-> NaN, vals |-> ValsA],
                        [isin |-> IsinStrictB, date |-> DateSep05, desc |-> NaN, vals |-> ValsA]}),
                {Auto, All, Specific(2025, 9)}, {"xls"})
    \/ InitWith(Sheets({[columns |-> SubSeq(StdLayout.columns, 1, width),
                         date_at |-> 1, isin_at |-> 3,
                         desc_at |-> IF width >= 6 THEN 6 ELSE 0,
                         vals_at |-> [n \in 1 .. 5 |-> IF 9 + n <= width THEN 9 + n ELSE 0]] :
                           width \in {4, 5, 9, 12}}
                       \cup {[columns |-> <<<<"d", "a", "t", "a", " ", "a", "s", "t", "a">>, <<"I", "S", "I", "N">>, <<"o", "f", "f", "e", "r", "t", "o">>, <<"a", "s", "s", "e", "g", "n", "a", "t", "o">>>>,
                              date_at |-> 1, isin_at |-> 2, desc_at |-> 0,
                              vals_at |-> <<3, 0, 0, 0, 4>>]},
                       {[isin |-> IsinStrictA, date |-> DateOct15, desc |-> DescBTP, vals |-> ValsA],
                        [isin |-> IsinStrictA, date |-> DateOct20, desc |-> DescBTP, vals |-> ValsB]}),
                {Auto}, {"xls", "legacy"})

Init == InitFilter \/ InitMonth \/ InitData \/ InitColumns

Spec == Init /\ [][Next]_vars
SpecFilter == InitFilter /\ [][Next]_vars
SpecMonth == InitMonth /\ [][Next]_vars
SpecData == InitData /\ [][Next]_vars
SpecColumns == InitColumns /\ [][Next]_vars


(***************************************************************************)
(* Properties                                                              *)
(***************************************************************************)
\* the table parse_auction_data hands to clean_isin_column
InputDf == SkipAndDrop(xls)

\* the identifier of a row of table t, as text
IdText(t, row) == AsTypeStr(row.cells[IsinColumn(t.columns)]).v

\* the rows of the input whose identifier is one of the texts in S
InputIdx(S) ==
    {InputDf.rows[k].idx : k \in {j \in DOMAIN InputDf.rows : IdText(InputDf, InputDf.rows[j]) \in S}}

\* the identifier texts of the input
InputIds == {IdText(InputDf, InputDf.rows[k]) : k \in DOMAIN InputDf.rows}

Strict == {s \in InputIds : StrictMatch(s)}
Relaxed == {s \in InputIds : RelaxedMatch(s)}
NonEmpty == {s \in InputIds : NonEmptyMatch(s)}

AfterClean ==
    xls_file = "path" /\ pc \notin {"read", "clean"} /\ IsinColumn(InputDf.columns) # 0

NoDuplicateRows(t) == Len(t.rows) = Cardinality(Idx(t))

C2_RelaxedTier ==
    (AfterClean /\ InputIdx(Strict) = {} /\ InputIdx(Relaxed) # {})
    => Idx(df_clean) = InputIdx(Relaxed) /\ NoDuplicateRows(df_clean)

\* relaxed identifiers beside a non-empty one that the relaxed tier leaves out
C2_Witness ==
    /\ AfterClean /\ pc = "month"
    /\ InputIdx(Strict) = {}
    /\ InputIdx(Relaxed) # {}
    /\ InputIdx(NonEmpty \ Relaxed) # {}
    /\ Idx(df_clean) = InputIdx(Relaxed)

\* C3: when no row matches the strict pattern and none the relaxed one,
\* clean_isin_column returns exactly the rows whose identifier text is
\* non-empty and not 'nan'; when there are none it returns no row.
C3_LastResortTier ==
    (AfterClean /\ InputIdx(Strict) = {} /\ InputIdx(Relaxed) = {})
    => Idx(df_clean) = InputIdx(NonEmpty) /\ NoDuplicateRows(df_clean)

\* Scenario B: ITABCDEFGHIJ is kept, beside a missing identifier that is not
C3_Witness ==
    /\ AfterClean /\ pc = "month"
    /\ InputIdx(Strict) = {} /\ InputIdx(Relaxed) = {}
    /\ IsinAlpha.v \in {IdText(df_clean, df_clean.rows[k]) : k \in DOMAIN df_clean.rows}
    /\ InputIdx(InputIds \ NonEmpty) # {}
    /\ Idx(df_clean) = InputIdx(NonEmpty)

\* the auction date of a row of df_clean
DateOfClean(k) == ToDatetime(df_clean.rows[k].cells[DateColumn(df_clean.columns)])

\* the rows of df_clean with a parseable date
ValidClean == {k \in DOMAIN df_clean.rows : NotNa(DateOfClean(k))}

YearOf(k) == DateOfClean(k).v[1]
MonthNoOf(k) == DateOfClean(k).v[2]

\* the rows of df_clean of the latest month there is
LatestClean ==
    {k \in ValidClean :
       \A j \in ValidClean : YearOf(j) * 12 + MonthNoOf(j) <= YearOf(k) * 12 + MonthNoOf(k)}

\* label is the text YYYY-MM of year y, month m
LabelIs(label, y, m) ==
    /\ Len(label) = 7
    /\ label[5] = "-"
    /\ \A i \in {1, 2, 3, 4, 6, 7} : IsDigit(label[i])
    /\ ParseInt(SubSeq(label, 1, 4)) = y
    /\ ParseInt(SubSeq(label, 6, 7)) = m

MonthDone == pc \notin {"read", "clean", "month"} /\ month_data_result.kind # "unset"

\* C4: in mode auto get_month_data returns exactly the rows of the latest
\* month among the rows with a valid date, labelled YYYY-MM of that month,
\* and the dict parse_auction_data returns has exactly the identifiers with a
\* row in that month.
C4_AutoLatestMonth ==
    (MonthDone /\ ~process_all /\ target_month = <<>> /\ ValidClean # {})
    => /\ Idx(month_data_result.data) = {df_clean.rows[k].idx : k \in LatestClean}
       /\ NoDuplicateRows(month_data_result.data)
       /\ \A k \in LatestClean : LabelIs(month_data_result.label, YearOf(k), MonthNoOf(k))
       /\ ret.value = "dict" =>
            DictKeys(parsed_data) = {IdText(df_clean, df_clean.rows[k]) : k \in LatestClean}

\* Scenario A: an identifier that only has rows in an earlier month is left out
C4_Witness ==
    /\ MonthDone /\ ~process_all /\ target_month = <<>>
    /\ ret.value = "dict"
    /\ \E k \in ValidClean \ LatestClean :
         IdText(df_clean, df_clean.rows[k]) \notin DictKeys(parsed_data)
    /\ Cardinality(LatestClean) >= 2

\* C5: in mode specific get_month_data returns, for every table (also one
\* without any parseable date), exactly the rows of the requested month and
\* the label YYYY-MM of the requested month.
C5_SpecificMonthLabel ==
    (MonthDone /\ ~process_all /\ target_month # <<>>)
    => /\ Idx(month_data_result.data) =
            {df_clean.rows[k].idx :
               k \in {j \in ValidClean : <<YearOf(j), MonthNoOf(j)>> = target_month}}
       /\ LabelIs(month_data_result.label, target_month[1], target_month[2])

\* C6: what parse_auction_data returns when the requested scope has no rows
\* differs from what it returns on a fatal failure (the except clause).
C6_EmptyResultDistinguishable ==
    (pc = "parsed" /\ ret.at = "empty_month") => ret.value # ReturnedAt("exception").value

\* the (bucket, row) places where the row labelled i occurs in the mapping
PlacesOf(items, i) ==
    {pl \in UNION {{<<n, j>> : j \in DOMAIN items[n].val.rows} : n \in DOMAIN items} :
       items[pl[1]].val.rows[pl[2]].idx = i}

\* C7: in mode all the buckets partition the rows with a parseable date:
\* each such row is in exactly one bucket, the one keyed by the YYYY-MM of its
\* date; no row with an unparseable date is in a bucket; no bucket is empty.
C7_PartitionComplete ==
    (MonthDone /\ process_all)
    => LET items == month_data_result.items
       IN /\ \A n \in DOMAIN items : items[n].val.rows # <<>>
          /\ \A n \in DOMAIN items : \A j \in DOMAIN items[n].val.rows :
               \E k \in ValidClean :
                 /\ df_clean.rows[k].idx = items[n].val.rows[j].idx
                 /\ LabelIs(items[n].key, YearOf(k), MonthNoOf(k))
          /\ \A k \in ValidClean : Cardinality(PlacesOf(items, df_clean.rows[k].idx)) = 1

\* two months, and a row whose date cannot be parsed
C7_Witness ==
    /\ MonthDone /\ process_all
    /\ Len(month_data_result.items) >= 2
    /\ ValidClean # DOMAIN df_clean.rows

\* the items of parsed_data whose data file has been written
Written == {n \in DOMAIN parsed_data : DataPath(parsed_data[n]) \in DOMAIN files}

DataSheet(n) == files[DataPath(parsed_data[n])].body

\* the entries of a series that carry the date
SameDate(series, date) == {k \in DOMAIN series : series[k].date = date}

\* of those, the one that comes first in the source sheet
FirstInSource(series, date) ==
    CHOOSE k \in SameDate(series, date) :
      \A j \in SameDate(series, date) : series[k].idx <= series[j].idx

\* the file rows of a sheet that carry the date in their first cell
RowsFor(sheet, date) == {r \in 3 .. Len(sheet) : sheet[r][1] = Str(date)}

\* C8: when several rows of an identifier share an auction date, the data
\* file has a single row for the date, and each amount in it is the amount of
\* the first of these rows in the order of the source sheet.
C8_FirstMatchWins ==
    \A n \in Written :
      generator = "xls" =>
        LET ts == parsed_data[n].val.time_series
        IN \A m \in DOMAIN TIME_SERIES_ORDER :
             LET series == ts[TIME_SERIES_ORDER[m]]
             IN \A d \in {series[k].date : k \in DOMAIN series} :
                  Cardinality(SameDate(series, d)) >= 2 =>
                    /\ Cardinality(RowsFor(DataSheet(n), d)) = 1
                    /\ \A r \in RowsFor(DataSheet(n), d) :
                         LET v == series[FirstInSource(series, d)].value
                         IN DataSheet(n)[r][m + 1] = IF v.t = "nan" THEN Blank ELSE v

\* the codes and descriptions in the order OFR, MIN, MAX, REQ, ASGN
OrderedSuffixes == <<<<"OFR.ITBI.D">>, <<"MIN.ITBI.D">>, <<"MAX.ITBI.D">>, <<"REQ.ITBI.D">>, <<"ASGN.ITBI.D">>>>

OrderedLabels ==
    <<<<"amounts:offered">>, <<"amounts:minimum offered">>, <<"amounts:maximum offered">>,
      <<"amounts:required">>, <<"amounts:assigned">>>>

\* C9: in every data file, of either generator, the first cell of file rows
\* 1 and 2 is blank, row 1 holds the 5 codes and row 2 the 5 descriptions in
\* the order OFR, MIN, MAX, REQ, ASGN, and the first dated row is row 3.
C9_HeaderLayout ==
    \A n \in Written :
      LET sheet == DataSheet(n)
          isin == ItemIsin(parsed_data[n])
          dates == AllDates(parsed_data[n].val.time_series)
      IN /\ Len(sheet) >= 3
         /\ sheet[1][1] = Blank
         /\ sheet[2][1] = Blank
         /\ \A m \in 1 .. 5 :
              /\ sheet[1][m + 1] = Str(isin \o <<".">> \o OrderedSuffixes[m])
              /\ sheet[2][m + 1] =
                   Str(<<"ISIN:">> \o isin \o <<";">> \o FormatCell(parsed_data[n].val.description)
                       \o <<":">> \o OrderedLabels[m])
         /\ sheet[3][1].v \in dates

\* the date text YYYY-MM-DD as a number that grows with the date
DateNumber(text) ==
    ParseInt(SubSeq(text, 1, 4)) * 10000 + ParseInt(SubSeq(text, 6, 7)) * 100
        + ParseInt(SubSeq(text, 9, 10))

\* the first value a series has for the date
ValueFor(series, date) ==
    series[CHOOSE k \in SameDate(series, date) : \A j \in SameDate(series, date) : k <= j].value

\* C10: in a data file of create_data_file_xls the rows from row 3 on are one
\* row per distinct date of the identifier's series, in strictly ascending
\* date order; each of the 5 amount cells holds the series' value for the
\* date, and is blank exactly when that value is missing: a zero is written
\* as zero.
C10_DataBody ==
    \A n \in Written :
      generator = "xls" =>
        LET sheet == DataSheet(n)
            ts == parsed_data[n].val.time_series
        IN /\ {sheet[r][1].v : r \in 3 .. Len(sheet)} = AllDates(ts)
           /\ Len(sheet) - 2 = Cardinality(AllDates(ts))
           /\ \A r \in 3 .. Len(sheet) - 1 :
                DateNumber(sheet[r][1].v) < DateNumber(sheet[r + 1][1].v)
           /\ \A r \in 3 .. Len(sheet) : \A m \in 1 .. 5 :
                LET v == ValueFor(ts[TIME_SERIES_ORDER[m]], sheet[r][1].v)
                IN /\ sheet[r][m + 1] = Blank <=> v.t = "nan"
                   /\ v.t # "nan" => sheet[r][m + 1] = v

\* a data file with two dated rows, a zero and a blank among its cells
C10_Witness ==
    \E n \in Written :
      /\ generator = "xls"
      /\ Len(DataSheet(n)) >= 4
      /\ \E r \in 3 .. Len(DataSheet(n)) : \E m, q \in 1 .. 5 :
           DataSheet(n)[r][m + 1] = Num(0) /\ DataSheet(n)[r][q + 1] = Blank

\* the value a metadata row has under a column name
Field(row, name) == row[CHOOSE n \in DOMAIN row : row[n].key = name].val

\* the items of parsed_data whose metadata file has been written
MetaWritten == {n \in DOMAIN parsed_data : MetaPath(parsed_data[n]) \in DOMAIN files}

MetaSheet(n) == files[MetaPath(parsed_data[n])].body

\* the code and the description of metric k of an item of parsed_data
CodeOf(n, k) == Str(parsed_data[n].val.isin \o <<".">> \o OrderedSuffixes[k])

DescOf(n, k) ==
    Str(<<"ISIN:">> \o parsed_data[n].val.isin \o <<";">>
        \o FormatCell(parsed_data[n].val.description) \o <<":">> \o OrderedLabels[k])

\* C11: create_metadata_rows returns exactly 5 rows, one per metric in the
\* order OFR, MIN, MAX, REQ, ASGN, each with all 16 columns of the schema;
\* the metadata file has the 16 column names in schema order in its first
\* row and, under it, one row of 16 cells for each of the 5 rows.
C11_MetadataSchema ==
    /\ Len(METADATA_COLUMNS) = 16
    /\ Cardinality(Range(METADATA_COLUMNS)) = 16
    /\ \A n \in DOMAIN parsed_data :
         LET metadata == parsed_data[n].val.metadata
         IN /\ Len(metadata) = 5
            /\ \A k \in 1 .. 5 :
                 /\ Range(METADATA_COLUMNS) \subseteq DictKeys(metadata[k])
                 /\ Field(metadata[k], <<"CODE">>) = CodeOf(n, k)
    /\ \A n \in MetaWritten :
         /\ Len(MetaSheet(n)) = 6
         /\ \A r \in 1 .. 6 : Len(MetaSheet(n)[r]) = 16
         /\ \A c \in 1 .. 16 : MetaSheet(n)[1][c] = Str(METADATA_COLUMNS[c])
         /\ \A k \in 1 .. 5 :
              /\ MetaSheet(n)[k + 1][1] = CodeOf(n, k)
              /\ MetaSheet(n)[k + 1][2] = DescOf(n, k)
              /\ MetaSheet(n)[k + 1][16] = Str(<<"ITBI">>)

\* the metadata files of two items are written
C11_Witness ==
    /\ Cardinality(MetaWritten) >= 2
    /\ \A n \in MetaWritten : Len(MetaSheet(n)) = 6

\* C12: the k-th metadata row of an identifier/month has CODE
\* '{identifier}.{suffix_k}' and DESCRIPTION
\* 'ISIN:{identifier};{description}:{label_k}', and in the data file of
\* create_data_file_xls the k-th code cell of row 1 and the k-th description
\* cell of row 2 are equal to them.
C12_CodeDescriptionAgree ==
    /\ \A n \in DOMAIN parsed_data : \A k \in 1 .. 5 :
         /\ Field(parsed_data[n].val.metadata[k], <<"CODE">>) = CodeOf(n, k)
         /\ Field(parsed_data[n].val.metadata[k], <<"DESCRIPTION">>) = DescOf(n, k)
    /\ \A n \in Written : generator = "xls" =>
         \A k \in 1 .. 5 :
           /\ DataSheet(n)[1][k + 1] = Field(parsed_data[n].val.metadata[k], <<"CODE">>)
           /\ DataSheet(n)[2][k + 1] = Field(parsed_data[n].val.metadata[k], <<"DESCRIPTION">>)

\* a data file of an identifier that has a description
C12_Witness ==
    \E n \in Written :
      /\ generator = "xls"
      /\ parsed_data[n].val.description = DescBTP
      /\ DataSheet(n)[2][2] = DescOf(n, 1)

\* YYYYMMDD of the last calendar day of the month of an item of parsed_data
LastDayStamp(n) ==
    LET current_month == parsed_data[n].val.current_month
        y == ParseInt(SubSeq(current_month, 1, 4))
        mo == ParseInt(SubSeq(current_month, 6, 7))
    IN ZeroPad(y, 4) \o ZeroPad(mo, 2) \o ZeroPad(DaysInMonth(y, mo), 2)

\* the three file names the month and the identifier of an item call for
NamesFor(n) ==
    [meta |-> <<"ITBI_">> \o parsed_data[n].val.isin \o <<"_META_">> \o LastDayStamp(n) \o <<".xls">>,
     data |-> <<"ITBI_">> \o parsed_data[n].val.isin \o <<"_DATA_">> \o LastDayStamp(n) \o <<".xls">>,
     zip |-> <<"ITBI_">> \o parsed_data[n].val.isin \o <<"_">> \o LastDayStamp(n) \o <<".zip">>]

\* C13: with either generator, every data and metadata file is named
\* ITBI_{identifier}_DATA_{ts} / ITBI_{identifier}_META_{ts} with ts the
\* 8-digit YYYYMMDD of the last day of the processed month, and the archive
\* ITBI_{identifier}_{ts}.zip with the same ts.
C13_FileNames ==
    \A path \in DOMAIN files :
      \E n \in DOMAIN parsed_data : path = NamesFor(n)[files[path].kind]

\* the same, for the files of file_generator_xls only
C13_XlsFileNames == generator = "xls" => C13_FileNames

\* C14: within one run two different items of parsed_data have different
\* (identifier, month) pairs and different metadata, data and archive
\* paths, and each data file written holds the codes of its own identifier
\* and dates of its own month only.
C14_DistinctArtifacts ==
    /\ \A n, m \in DOMAIN parsed_data : n # m =>
         /\ <<parsed_data[n].val.isin, parsed_data[n].val.current_month>>
              # <<parsed_data[m].val.isin, parsed_data[m].val.current_month>>
         /\ MetaPath(parsed_data[n]) # MetaPath(parsed_data[m])
         /\ DataPath(parsed_data[n]) # DataPath(parsed_data[m])
         /\ ZipPath(parsed_data[n]) # ZipPath(parsed_data[m])
    /\ \A n \in Written :
         /\ DataSheet(n)[1][2] = CodeOf(n, 1)
         /\ \A r \in 3 .. Len(DataSheet(n)) :
              Len(DataSheet(n)[r][1].v) = 10 =>
                SubSeq(DataSheet(n)[r][1].v, 1, 7) = parsed_data[n].val.current_month

\* one identifier in two months and two identifiers in one month, all three
\* data files written
C14_Witness ==
    /\ Cardinality(Written) = 3
    /\ \E n, m \in Written :
         /\ parsed_data[n].val.isin = parsed_data[m].val.isin
         /\ parsed_data[n].val.current_month # parsed_data[m].val.current_month
    /\ \E n, m \in Written :
         /\ parsed_data[n].val.isin # parsed_data[m].val.isin
         /\ parsed_data[n].val.current_month = parsed_data[m].val.current_month

\* generate_files_for_isin has ended for every item it was called for
Ended == pc \in {"failed", "verify", "done"}

\* C15: when generate_files_for_isin has ended, normally or by an error of
\* a write, the data file and the metadata file of an identifier/month are
\* both there or both missing.
C15_BothOrNeither ==
    Ended =>
      \A n \in DOMAIN parsed_data :
        (MetaPath(parsed_data[n]) \in DOMAIN files) <=> (DataPath(parsed_data[n]) \in DOMAIN files)

\* C17: clean_isin_column leaves the table read from the sheet as it was,
\* and get_month_data leaves the table of clean_isin_column as it was: no
\* cell, dtype or column of the caller's table changes.
C17_NoInPlaceMutation ==
    [][/\ pc = "clean" => df' = df
       /\ pc = "month" => df_clean' = df_clean]_vars

\* the series of the items of parsed_data
AllSeries ==
    {parsed_data[n].val.time_series[ts_type] :
       n \in DOMAIN parsed_data, ts_type \in Range(TIME_SERIES_ORDER)}

\* C18: in each of the 5 series of every identifier/month of parsed_data the
\* dates are non-decreasing, whatever the order of the rows in the sheet.
C18_DatesNonDecreasing ==
    /\ \A n \in DOMAIN parsed_data :
         DOMAIN parsed_data[n].val.time_series = Range(TIME_SERIES_ORDER)
    /\ \A series \in AllSeries :
         \A k \in 1 .. Len(series) - 1 :
           DateNumber(series[k].date) <= DateNumber(series[k + 1].date)

\* a series of two days whose rows come in the opposite order in the sheet
C18_Witness ==
    \E series \in AllSeries :
      \E k \in 1 .. Len(series) - 1 :
        /\ DateNumber(series[k].date) < DateNumber(series[k + 1].date)
        /\ series[k].idx > series[k + 1].idx

\* C19: every series of create_time_series_data is strictly ascending by
\* date: no two of its entries carry the same date, also when the
\* identifier has several rows of the same day in the sheet.
C19_SeriesDeduplicated ==
    \A series \in AllSeries :
      \A k \in 1 .. Len(series) - 1 :
        DateNumber(series[k].date) < DateNumber(series[k + 1].date)

\* the data and metadata files of an output directory
Artifacts(fs) == [path \in {q \in DOMAIN fs : fs[q].kind \in {"data", "meta"}} |-> fs[path]]

HasOneOf(label, subs) == \E sub \in subs : Contains(Lower(label), sub)

\* position p (0: no column) is what the chain picks among the labels
\* columns: the column labelled exact when there is one, else the leftmost
\* column whose label has one of subs, else column fallback, when the
\* table is that wide
ChainPicks(columns, p, exact, subs, fallback) ==
    IF exact \in Range(columns) THEN p # 0 /\ columns[p] = exact
    ELSE IF \E i \in DOMAIN columns : HasOneOf(columns[i], subs)
    THEN /\ p # 0
         /\ HasOneOf(columns[p], subs)
         /\ \A j \in 1 .. p - 1 : ~HasOneOf(columns[j], subs)
    ELSE IF Len(columns) >= fallback THEN p = fallback
    ELSE p = 0

\* the column that was picked, seen from the labels before and after: the
\* one whose label became exact, or the one that had the label already
PickedColumn(before, after, exact) ==
    IF \E i \in DOMAIN before : after[i] # before[i]
    THEN CHOOSE i \in DOMAIN before : after[i] # before[i]
    ELSE IF exact \in Range(before) THEN ColPos(before, exact)
    ELSE 0

\* after is before with the label of column p, if any, replaced by exact
Relabelled(before, after, p, exact) ==
    /\ Len(after) >= Len(before)
    /\ \A i \in DOMAIN before : after[i] = (IF i = p THEN exact ELSE before[i])

\* the labels of the table get_month_data returned (<<>>: an empty mapping)
MonthColumns ==
    IF month_data_result.kind = "tuple" THEN month_data_result.data.columns
    ELSE IF month_data_result.kind = "dict" /\ month_data_result.items # <<>>
    THEN month_data_result.items[1].val.columns
    ELSE <<>>

\* C20: the identifier column is the column labelled 'ISIN', else the
\* leftmost column whose label contains 'isin' in any case, else the third
\* column; the date column is the column labelled 'data asta', else the
\* leftmost column whose label contains 'data' or 'date' in any case, else
\* the first column.  A later stage is used only when the earlier ones
\* found nothing.
C20_DetectionChain ==
    /\ (xls_file = "path" /\ pc \notin {"read", "clean"}) =>
         /\ ChainPicks(InputDf.columns, PickedColumn(InputDf.columns, df_clean.columns, ISIN),
                       ISIN, {<<"i", "s", "i", "n">>}, 3)
         /\ Relabelled(InputDf.columns, df_clean.columns,
                       PickedColumn(InputDf.columns, df_clean.columns, ISIN), ISIN)
    /\ MonthColumns # <<>> =>
         /\ ChainPicks(df_clean.columns, PickedColumn(df_clean.columns, MonthColumns, DATA_ASTA),
                       DATA_ASTA, {<<"d", "a", "t", "a">>, <<"d", "a", "t", "e">>}, 1)
         /\ Relabelled(df_clean.columns, MonthColumns,
                       PickedColumn(df_clean.columns, MonthColumns, DATA_ASTA), DATA_ASTA)

\* the three stages have each picked a column, for the identifier and for
\* the date
C20_WitnessExact ==
    /\ MonthColumns # <<>>
    /\ InputDf.columns = ExactLayout.columns
    /\ df_clean.columns = ExactLayout.columns

C20_WitnessFuzzy ==
    /\ MonthColumns # <<>>
    /\ InputDf.columns = FuzzyLayout.columns
    /\ PickedColumn(InputDf.columns, df_clean.columns, ISIN) = 4
    /\ PickedColumn(df_clean.columns, MonthColumns, DATA_ASTA) = 2

C20_WitnessPositional ==
    /\ MonthColumns # <<>>
    /\ InputDf.columns = PositionalLayout.columns
    /\ PickedColumn(InputDf.columns, df_clean.columns, ISIN) = 3
    /\ PickedColumn(df_clean.columns, MonthColumns, DATA_ASTA) = 1

\* a run on the sheet with several labels that contain 'isin' and 'data'
\* has written its files
C20_Witness ==
    /\ C20_WitnessFuzzy
    /\ pc = "done"

\* the labels of the 5 metrics in the language of the source, and the
\* 0-based positions the metrics have in the documented layout
MetricHeaders ==
    <<<<"o", "f", "f", "e", "r", "t", "o">>, <<"m", "i", "n", "i", "m", "o", " ", "o", "f", "f", "e", "r", "t", "o">>, <<"m", "a", "s", "s", "i", "m", "o", " ", "o", "f", "f", "e", "r", "t", "o">>, <<"r", "i", "c", "h", "i", "e", "s", "t", "o">>, <<"a", "s", "s", "e", "g", "n", "a", "t", "o">>>>

\* the cell the input has in column c for the row a series entry came from
SourceCell(entry, c) ==
    InputDf.rows[CHOOSE j \in DOMAIN InputDf.rows : InputDf.rows[j].idx = entry.idx].cells[c]

\* the series of metric k of item n
SeriesOf(n, k) == parsed_data[n].val.time_series[TIME_SERIES_ORDER[k]]

\* C21: a column whose header is exactly the label of a metric ('offerto',
\* 'minimo offerto', 'massimo offerto', 'richiesto', 'assegnato') is the
\* source of that metric, in priority over the column at the metric's
\* position; a column labelled 'descrizione' is the source of the
\* description.
C21_HeaderBeforePosition ==
    \A n \in DOMAIN parsed_data :
      /\ \A k \in 1 .. 5 :
           MetricHeaders[k] \in Range(InputDf.columns) =>
             \A e \in DOMAIN SeriesOf(n, k) :
               SeriesOf(n, k)[e].value
                 = SourceCell(SeriesOf(n, k)[e], ColPos(InputDf.columns, MetricHeaders[k]))
      /\ <<"d", "e", "s", "c", "r", "i", "z", "i", "o", "n", "e">> \in Range(InputDf.columns) =>
           \E e \in DOMAIN SeriesOf(n, 1) :
             parsed_data[n].val.description
               = SourceCell(SeriesOf(n, 1)[e], ColPos(InputDf.columns, <<"d", "e", "s", "c", "r", "i", "z", "i", "o", "n", "e">>))

\* the metrics whose position is not a position of the source table
MissingMetrics == {k \in 1 .. 5 : 9 + k > Len(InputDf.columns)}

\* the rows of a data file that begin with a date
DatedRows(sheet) == {r \in 3 .. Len(sheet) : Len(sheet[r][1].v) = 10}

\* C22: when the source table has fewer than 14 columns, every metric whose
\* position (9..13) is not the position of a source column has a series of
\* absent values only, and blank cells in the data file.
C22_MissingMetricAbsent ==
    /\ \A n \in DOMAIN parsed_data : \A k \in MissingMetrics :
         \A e \in DOMAIN SeriesOf(n, k) : SeriesOf(n, k)[e].value = NaN
    /\ \A n \in Written : \A k \in MissingMetrics :
         \A r \in DatedRows(DataSheet(n)) : DataSheet(n)[r][k + 1] = Blank

\* the same, for the source tables that are too narrow for a helper column
\* to fall on the position of a metric
C22_NarrowTables == Len(InputDf.columns) <= 7 => C22_MissingMetricAbsent

\* no header of the source has 'descrizione' or 'description' in it, and
\* the source has no column at index 5
NoDescriptionColumn ==
    /\ \A c \in DOMAIN InputDf.columns :
         ~HasOneOf(InputDf.columns[c], {<<"d", "e", "s", "c", "r", "i", "z", "i", "o", "n", "e">>, <<"d", "e", "s", "c", "r", "i", "p", "t", "i", "o", "n">>})
    /\ Len(InputDf.columns) <= 5

\* C23: when the description cannot be found, prepare_isin_data returns the
\* empty string, and every DESCRIPTION is 'ISIN:{identifier};:{label}'.
C23_DescriptionEmpty ==
    NoDescriptionColumn =>
      \A n \in DOMAIN parsed_data :
        /\ parsed_data[n].val.description = Str(<<>>)
        /\ \A k \in 1 .. 5 :
             Field(parsed_data[n].val.metadata[k], <<"DESCRIPTION">>)
               = Str(<<"ISIN:">> \o parsed_data[n].val.isin \o <<";">> \o <<":">> \o OrderedLabels[k])

\* the same, for the source tables of at most 3 columns, where the two
\* helper columns do not reach index 5
C23_ThreeColumns == Len(InputDf.columns) <= 3 => C23_DescriptionEmpty

\* no header is 'ISIN', none has 'isin' in it, and there are at most 2
\* columns: the chain finds no identifier column
NoIdentifierColumn ==
    /\ ISIN \notin Range(InputDf.columns)
    /\ \A c \in DOMAIN InputDf.columns : ~HasOneOf(InputDf.columns[c], {<<"i", "s", "i", "n">>})
    /\ Len(InputDf.columns) <= 2

\* C24: when no identifier column can be found, parse_auction_data returns
\* None in every mode of month selection, no entry of any identifier is
\* produced and no file is written.
C24_NoIdentifierColumnFatal ==
    NoIdentifierColumn =>
      /\ parsed_data = <<>>
      /\ files = <<>>
      /\ ret.value # "dict"
      /\ pc = "parsed" => ret.value = "None"
      /\ pc \notin {"loop", "gen_meta", "gen_data", "gen_zip", "verify", "done"}

\* the run has failed for a sheet of two columns none of which is the
\* identifier, in each mode; the rows had a date of the month asked for
C24_WitnessMode(tm, all) ==
    /\ NoIdentifierColumn
    /\ target_month = tm /\ process_all = all
    /\ pc = "failed"
    /\ ret = ReturnedAt("exception")

C24_Witness == C24_WitnessMode(<<2025, 9>>, FALSE)

C24_WitnessAuto == C24_WitnessMode(<<>>, FALSE)

C24_WitnessAll == C24_WitnessMode(<<>>, TRUE)

\* C25: TARGET_MONTH = 'all' (PROCESS_ALL_MONTHS left False) is accepted:
\* the run does not end with an error of the configuration, and
\* get_month_data returns the mapping of all months of the sheet.
C25_AllTextAccepted ==
    (target_month = <<"a", "l", "l">> /\ ~process_all) =>
      /\ pc # "crashed"
      /\ month_data_result.kind \in {"unset", "dict"}

\* the key parse_auction_data has in mode all for row k of df_clean
KeyOfClean(k) ==
    IdText(df_clean, df_clean.rows[k]) \o <<"_">> \o ZeroPad(YearOf(k), 4) \o <<"-">>
        \o ZeroPad(MonthNoOf(k), 2)

\* parse_auction_data has returned its dict
Complete == pc \notin {"download", "crashed"} /\ ret = ReturnedAt("complete")

\* C29: when process_all is true get_month_data returns the mapping of all
\* months, whatever target_month is, and parse_auction_data has one entry
\* '{identifier}_{YYYY-MM}' for each (identifier, month) that has a row with
\* a parseable date, and no other; when process_all is false the keys are
\* the identifiers.
C29_ModePrecedence ==
    /\ (MonthDone /\ process_all) => month_data_result.kind = "dict"
    /\ (Complete /\ process_all) =>
         /\ DictKeys(parsed_data) = {KeyOfClean(k) : k \in ValidClean}
         /\ Len(parsed_data) = Cardinality(DictKeys(parsed_data))
         /\ DictKeys(month_data_result.items)
              = {ZeroPad(YearOf(k), 4) \o <<"-">> \o ZeroPad(MonthNoOf(k), 2) : k \in ValidClean}
    /\ (Complete /\ ~process_all) =>
         /\ month_data_result.kind = "tuple"
         /\ DictKeys(parsed_data)
              = {IdText(month_data_result.data, month_data_result.data.rows[k]) :
                   k \in DOMAIN month_data_result.data.rows}
         /\ \A n \in DOMAIN parsed_data : parsed_data[n].key = parsed_data[n].val.isin

\* mode all with a target month of which the sheet has rows, and rows of
\* another month: both months are in the result
C29_Witness ==
    /\ Complete
    /\ process_all
    /\ target_month = <<2025, 9>>
    /\ \E n, m \in DOMAIN parsed_data :
         /\ parsed_data[n].val.current_month = <<"2", "0", "2", "5", "-", "0", "9">>
         /\ parsed_data[m].val.current_month = <<"2", "0", "2", "5", "-", "1", "0">>

\* the number of the last day of month m of year y
ExpectedDay(y, m) ==
    IF m \in {1, 3, 5, 7, 8, 10, 12} THEN 31
    ELSE IF m \in {4, 6, 9, 11} THEN 30
    ELSE IF (y % 4 = 0 /\ y % 100 # 0) \/ y % 400 = 0 THEN 29
    ELSE 28

\* the timestamp in a file name: the 8 characters before the extension
Stamp(path) == SubSeq(path, Len(path) - 8, Len(path) - 1)

\* the timestamp the month of item n calls for
ExpectedStamp(n) ==
    SubSeq(parsed_data[n].val.current_month, 1, 4)
        \o SubSeq(parsed_data[n].val.current_month, 6, 7)
        \o ZeroPad(ExpectedDay(ParseInt(SubSeq(parsed_data[n].val.current_month, 1, 4)),
                               ParseInt(SubSeq(parsed_data[n].val.current_month, 6, 7))), 2)

\* C26: the timestamp get_timestamp_from_month gives the files of a month
\* 'YYYY-MM' is YYYYMMDD of the last day of that month: 31 or 30, 29 for
\* February in a leap year (every fourth year, but of the century years
\* only those divisible by 400) and 28 otherwise, and 1231 of the same
\* year for December.
C26_LastDayOfMonth ==
    generator = "xls" =>
      /\ \A n \in MetaWritten : Stamp(MetaPath(parsed_data[n])) = ExpectedStamp(n)
      /\ \A path \in DOMAIN files :
           /\ Len(Stamp(path)) = 8
           /\ \E n \in DOMAIN parsed_data : Stamp(path) = ExpectedStamp(n)

\* the files of February 1900, of February 2000, of February 2024 and of
\* December 2025
C26_WitnessStamp(stamp) ==
    /\ generator = "xls"
    /\ pc = "done"
    /\ \A path \in DOMAIN files : Stamp(path) = stamp
    /\ Cardinality(DOMAIN files) = 3

C26_Witness == C26_WitnessStamp(<<"1", "9", "0", "0", "0", "2", "2", "8">>)

C26_WitnessLeap == C26_WitnessStamp(<<"2", "0", "2", "4", "0", "2", "2", "9">>)

C26_WitnessFourHundred == C26_WitnessStamp(<<"2", "0", "0", "0", "0", "2", "2", "9">>)

C26_WitnessDecember == C26_WitnessStamp(<<"2", "0", "2", "5", "1", "2", "3", "1">>)

\* the archives in the output directory
Archives == {path \in DOMAIN files : files[path].kind = "zip"}

\* C27: create_zip_package runs for an identifier/month only when its
\* metadata file and its data file are written; the archive has exactly two
\* entries, the metadata file and the data file of that identifier/month
\* under their base names, and the two files stay in the output directory.
C27_ArchiveAfterBoth ==
    /\ pc = "gen_zip" =>
         /\ generator = "xls"
         /\ {NamesFor(gen_i).meta, NamesFor(gen_i).data} \subseteq DOMAIN files
    /\ \A path \in Archives :
         \E n \in DOMAIN parsed_data :
           /\ path = NamesFor(n).zip
           /\ Len(files[path].body) = 2
           /\ files[path].body[1].name = NamesFor(n).meta
           /\ files[path].body[2].name = NamesFor(n).data
           /\ {NamesFor(n).meta, NamesFor(n).data} \subseteq DOMAIN files
           /\ files[path].body[1].content = files[NamesFor(n).meta]
           /\ files[path].body[2].content = files[NamesFor(n).data]
           /\ files[NamesFor(n).meta].kind = "meta"
           /\ files[NamesFor(n).data].kind = "data"

\* the archives of two identifier/months are written
C27_Witness ==
    /\ pc = "done"
    /\ Cardinality(Archives) >= 2
    /\ Cardinality(DOMAIN files) = 3 * Cardinality(Archives)

\* the identifier texts in the tables get_month_data returned
MonthIds ==
    IF month_data_result.kind = "tuple"
    THEN {IdText(month_data_result.data, month_data_result.data.rows[k]) :
            k \in DOMAIN month_data_result.data.rows}
    ELSE IF month_data_result.kind = "dict"
    THEN UNION {{IdText(month_data_result.items[n].val, month_data_result.items[n].val.rows[k]) :
                   k \in DOMAIN month_data_result.items[n].val.rows} :
                n \in DOMAIN month_data_result.items}
    ELSE {}

\* the rows of the input with a strict identifier and a parseable date
StrictDated ==
    {k \in DOMAIN InputDf.rows :
       /\ StrictMatch(IdText(InputDf, InputDf.rows[k]))
       /\ NotNa(ToDatetime(InputDf.rows[k].cells[DateColumn(InputDf.columns)]))}

StepOf(p) ==
    IF p = "download" THEN "download"
    ELSE IF p \in {"read", "clean", "month", "loop", "parsed"} THEN "parse"
    ELSE IF p \in {"gen_meta", "gen_data", "gen_zip"} THEN "generate"
    ELSE p

\* the moves from step to step that main allows
StepOrder ==
    {<<"download", "parse">>, <<"download", "failed">>, <<"download", "crashed">>,
     <<"parse", "parse">>, <<"parse", "generate">>, <<"parse", "failed">>,
     <<"generate", "generate">>, <<"generate", "verify">>, <<"generate", "failed">>,
     <<"verify", "done">>, <<"done", "download">>}

\* what a position of main says about the results of the steps before it
StepResults ==
    /\ StepOf(pc) \in {"parse", "generate", "verify", "done"} => xls_file = "path"
    /\ StepOf(pc) \in {"generate", "verify", "done"} =>
         ret.value = "dict" /\ parsed_data # <<>>
    /\ pc \in {"verify", "done"} =>
         /\ file_paths # <<>>
         /\ \A n \in DOMAIN parsed_data : DictHas(file_paths, parsed_data[n].key)
    /\ files # <<>> => xls_file = "path" /\ ret.value = "dict" /\ parsed_data # <<>>
    /\ (xls_file = "None" \/ ret.value = "None") => pc \notin {"verify", "done"}

\* C30: main runs download, parse, generate, verify in this order; a step
\* starts only when the step before it returned a non-empty result, so no
\* file is written when the download returned no path or the parser
\* returned None or nothing; a run that failed never ends as a success.
C30_StepsInOrder ==
    [][/\ pc' # pc => <<StepOf(pc), StepOf(pc')>> \in StepOrder
       /\ StepResults'
       /\ pc = "failed" => pc' = "failed"]_vars

\* the download returned no path: main has returned its failure value and
\* nothing was written
C30_Witness ==
    /\ pc = "failed"
    /\ xls_file = "None"
    /\ ret.value = "unset"
    /\ files = <<>>

\* the parser returned None: main has returned its failure value and
\* nothing was written
C30_WitnessParser ==
    /\ pc = "failed"
    /\ xls_file = "path"
    /\ ret.value = "None"
    /\ files = <<>>

\* every step returned a result: the files of every item are there
C30_WitnessSuccess ==
    /\ pc = "done"
    /\ xls_file = "path"
    /\ ret.value = "dict"
    /\ \A n \in DOMAIN parsed_data : DictHas(file_paths, parsed_data[n].key)
    /\ files # <<>>

====
